---- MODULE Spec2Model ----
(***************************************************************************)
(* Verification model of the GnuCash report generator                      *)
(* (src/gnucash-report-generator/gnucash_report_generator.py) and of the   *)
(* transaction sorter                                                      *)
(* (src/gnucash-transacton-sorter/gnucash_transaction_sorter.py) and the   *)
(* hidden-status propagator                                                *)
(* (src/propagate-hidden/gnucash_propagate_hidden.py).                     *)
(*                                                                         *)
(* The module holds one state machine per component:                       *)
(*   SpecPeriods  get_period_ranges (the period calendar)                  *)
(*   SpecCache    build_transaction_cache / build_all_filtered_caches      *)
(*   SpecCalc     process_report_elements and the three calculators        *)
(*   SpecReport   main: parse_report_definition, then the calculation      *)
(*   SpecValues   apply_operation and parse_gnucash_value on their inputs  *)
(*   SpecSorter   two sorter instances loading and closing files           *)
(*   SpecEditor   the sorter's transaction list: moves, revert, commit,    *)
(*                context switches and closing the window                  *)
(*   SpecWrite    write_transaction_order, step by step                    *)
(*   SpecHidden   main and collect_accounts_to_hide of the propagator      *)
(*   SpecText     strip_comments and process_escape_sequences on a line    *)
(* Each specification leaves the variables of the other components idle.   *)
(*                                                                         *)
(* Conventions: a date is a tuple <<year, month, day>>; money is an        *)
(* integer number of cents (Decimal quantized to 0.01); None stands for    *)
(* Python's None / a missing XML element.                                  *)
(***************************************************************************)
EXTENDS Integers, Sequences, FiniteSets, TLC

VARIABLES
    \* ---- get_period_ranges ----
    start_date,     \* argument start_date
    end_date,       \* argument end_date
    period_type,    \* argument period_type: "m" or "q"
    current_date,   \* local current_date
    ranges,         \* local ranges: sequence of <<period_start, period_end>>
    pr_pc,          \* "loop" | "returned" | "raised" (ValueError from date.replace)
    \* ---- build_transaction_cache / build_all_filtered_caches ----
    store,              \* the transactions of the tree, in document order
    period_ranges,      \* argument period_ranges
    account_guids,      \* argument account_guids
    required_caches,    \* argument required_caches: a set of CacheKey
    transaction_cache,  \* the base cache under construction
    filtered_caches,    \* the filtered caches under construction
    trn_pos,            \* position of the running transaction loop in its iteration
    trn_visits,         \* how often the filtered pass visited each transaction
    cache_pc,           \* "base" | "filtered" | "done" | "idle"
    \* ---- process_report_elements ----
    elements,           \* the parsed element list
    accounts,           \* the account registry, in dict order (<<>>: no file)
    tree_loaded,        \* whether a GnuCash file was loaded (tree is not None)
    invert_income,      \* config.invert_income
    stored_values,      \* stored_values, keyed by the element (its line)
    elem_pos,           \* position of the element loop
    calc_pc,            \* "loop" | "returned" | "raised" | "idle"
    \* ---- parse_report_definition ----
    lines,              \* the lines of the definition file
    today,              \* datetime.now().date()
    line_num,           \* local line_num: the number of lines read so far
    references,         \* local references: reference number -> line number
    last_account,       \* local last_account: its position in elements, 0 for None
    config,             \* local config (ReportConfig)
    parse_error,        \* the exception that left the parser, if any
    parse_pc,           \* "lines" | "returned" | "raised" | "idle"
    \* ---- apply_operation on a working series; parse_gnucash_value ----
    op_values,          \* working_values
    op_operation,       \* elem.operation
    op_final,           \* result['final']
    op_pc,              \* "call" | "returned" | "idle"
    gv_str,             \* value_str
    gv_value,           \* the value returned
    gv_pc,              \* "call" | "returned" | "raised" | "idle"
    \* ---- the transaction sorter's lock files ----
    lck_files,          \* the GnuCash files whose .LCK file exists
    inst_pc,            \* per instance: where it is in _load_file / _on_close
    inst_target,        \* per instance: local lock_file of _load_file
    inst_lock,          \* per instance: self.lock_file
    inst_file,          \* per instance: self.gc_file
    \* ---- the sorter's transaction list and its window ----
    txn_list,           \* AccountTransactionList.transactions
    ed_context,         \* the file, account and date the list was loaded for
    ed_window,          \* "open" | "closed" (root.destroy())
    ed_dialog,          \* the handler that ran last and the answers it was given
    \* ---- write_transaction_order ----
    wr_pc,              \* where the call is
    wr_file,            \* the GnuCash file on disk
    wr_backups,         \* the backup copies on disk
    wr_valid,           \* whether the modified XML parses
    wr_result,          \* the (success, error) returned
    \* ---- the hidden-status propagator ----
    hid_parent,         \* per account: parent_guid
    hid_hidden,         \* per account: hidden
    hid_initial,        \* per account: hidden as parse_accounts read it
    accounts_to_hide,   \* accounts_to_hide (its keys)
    hid_stack,          \* the running calls of collect_accounts_to_hide
    hid_pc,             \* "main" | "collect" | "returned" | "exit" | "idle"
    \* ---- strip_comments and process_escape_sequences ----
    sc_line,            \* the raw line
    sc_stripped,        \* strip_comments(line)
    sc_processed,       \* process_escape_sequences of that
    sc_pc               \* "strip" | "escape" | "returned" | "idle"

vars_periods == <<start_date, end_date, period_type, current_date, ranges, pr_pc>>

vars_cache == <<store, period_ranges, account_guids, required_caches,
                transaction_cache, filtered_caches, trn_pos, trn_visits, cache_pc>>

vars_calc == <<elements, accounts, tree_loaded, invert_income, stored_values,
               elem_pos, calc_pc>>

vars_parse == <<lines, today, line_num, references, last_account, config,
                parse_error, parse_pc>>

vars_values == <<op_values, op_operation, op_final, op_pc, gv_str, gv_value, gv_pc>>

vars_sorter == <<lck_files, inst_pc, inst_target, inst_lock, inst_file>>

vars_editor == <<txn_list, ed_context, ed_window, ed_dialog>>

vars_write == <<wr_pc, wr_file, wr_backups, wr_valid, wr_result>>

vars_hidden == <<hid_parent, hid_hidden, hid_initial, accounts_to_hide, hid_stack,
                 hid_pc>>

vars_text == <<sc_line, sc_stripped, sc_processed, sc_pc>>

\* the sorter's list and writer, the propagator and the line functions
vars_tools == <<vars_editor, vars_write, vars_hidden, vars_text>>

vars == <<vars_periods, vars_cache, vars_calc, vars_parse, vars_values, vars_sorter,
          vars_tools>>

\* the variables outside each component, which its actions leave alone
OutsidePeriods == <<vars_cache, vars_calc, vars_parse, vars_values, vars_sorter,
    vars_tools>>
OutsideCache == <<vars_periods, vars_calc, vars_parse, vars_values, vars_sorter,
    vars_tools>>
OutsideCalc == <<vars_periods, vars_cache, vars_parse, vars_values, vars_sorter,
    vars_tools>>
OutsideValues == <<vars_periods, vars_cache, vars_calc, vars_parse, vars_sorter,
    vars_tools>>
OutsideSorter == <<vars_periods, vars_cache, vars_calc, vars_parse, vars_values,
    vars_tools>>
\* the parser builds elements; the other variables of the calculators and
\* the caches are set when main goes on to the calculation
OutsideParse == <<vars_periods, vars_cache, accounts, tree_loaded, invert_income,
                  stored_values, elem_pos, calc_pc, vars_values, vars_sorter,
                  vars_tools>>
\* the report generator and the lock files
vars_report == <<vars_periods, vars_cache, vars_calc, vars_parse, vars_values,
                 vars_sorter>>
OutsideEditor == <<vars_report, vars_write, vars_hidden, vars_text>>
OutsideWrite == <<vars_report, ed_context, ed_window, ed_dialog, vars_hidden, vars_text>>
OutsideHidden == <<vars_report, vars_editor, vars_write, vars_text>>
OutsideText == <<vars_report, vars_editor, vars_write, vars_hidden>>

None == "None"

(***************************************************************************)
(* Calendar arithmetic (datetime.date, calendar.monthrange)                *)
(***************************************************************************)

IsLeap(y) == (y % 4 = 0 /\ y % 100 # 0) \/ y % 400 = 0

\* calendar.monthrange(year, month)[1]: the number of days of the month
MonthRange(y, m) ==
    IF m = 2 THEN (IF IsLeap(y) THEN 29 ELSE 28)
    ELSE IF m \in {4, 6, 9, 11} THEN 30 ELSE 31

ValidDate(dt) ==
    /\ dt[2] \in 1..12
    /\ dt[3] \in 1..MonthRange(dt[1], dt[2])

\* date comparison: lexicographic on (year, month, day)
DateLT(a, b) ==
    \/ a[1] < b[1]
    \/ a[1] = b[1] /\ a[2] < b[2]
    \/ a[1] = b[1] /\ a[2] = b[2] /\ a[3] < b[3]

DateLE(a, b) == a = b \/ DateLT(a, b)

DateMax(a, b) == IF DateLT(a, b) THEN b ELSE a

DateMin(a, b) == IF DateLT(b, a) THEN b ELSE a

\* date + timedelta(days=1)
NextDay(dt) ==
    IF dt[3] < MonthRange(dt[1], dt[2]) THEN <<dt[1], dt[2], dt[3] + 1>>
    ELSE IF dt[2] < 12 THEN <<dt[1], dt[2] + 1, 1>>
    ELSE <<dt[1] + 1, 1, 1>>

\* date.replace(year=y, month=m, day=d): raises ValueError when the day does
\* not exist in the target month
DateValueError == <<0, 0, 0>>

DateReplace(y, m, d) ==
    IF ValidDate(<<y, m, d>>) THEN <<y, m, d>> ELSE DateValueError

(***************************************************************************)
(* get_period_ranges                                                       *)
(***************************************************************************)

\* the years and days of month the start and end dates are drawn from
YearMenu == {2024, 2025}
DayMenu == {1, 15, 28, 29, 30, 31}

DateMenu ==
    {dt \in YearMenu \X (1..12) \X DayMenu : ValidDate(dt)}

\* (current_date.month - 1) // 3 + 1
QuarterOf(dt) == ((dt[2] - 1) \div 3) + 1

\* one period of the monthly loop body: the month of current_date, clipped
MonthlyPeriod(cur, start, end) ==
    LET period_start == <<cur[1], cur[2], 1>>
        last_day == MonthRange(cur[1], cur[2])
        period_end == <<cur[1], cur[2], last_day>>
    IN  <<DateMax(period_start, start), DateMin(period_end, end)>>

\* "Move to next month": current_date.replace(...) keeps the day of month
MonthlyAdvance(cur) ==
    IF cur[2] = 12 THEN DateReplace(cur[1] + 1, 1, cur[3])
    ELSE DateReplace(cur[1], cur[2] + 1, cur[3])

\* one period of the quarterly loop body
QuarterlyPeriod(cur, start, end) ==
    LET quarter == QuarterOf(cur)
        first_month == (quarter - 1) * 3 + 1
        last_month == quarter * 3
        last_day == MonthRange(cur[1], last_month)
        period_start == <<cur[1], first_month, 1>>
        period_end == <<cur[1], last_month, last_day>>
    IN  <<DateMax(period_start, start), DateMin(period_end, end)>>

\* current_date.replace(month=first_month, day=1) cannot fail; the replace of
\* line 252 sets the day as well; the replaces of lines 262/265 keep the day
QuarterlyAdvance(cur) ==
    IF QuarterOf(cur) = 4 THEN DateReplace(cur[1] + 1, 1, cur[3])
    ELSE DateReplace(cur[1], QuarterOf(cur) * 3 + 1, cur[3])

InitPeriods ==
    /\ start_date \in DateMenu
    /\ end_date \in {e \in DateMenu : DateLE(start_date, e)}
    /\ period_type \in {"m", "q"}
    /\ current_date = start_date
    /\ ranges = <<>>
    /\ pr_pc = "loop"

\* one iteration of `while current_date <= end_date` (monthly branch)
MonthlyStep ==
    /\ pr_pc = "loop"
    /\ period_type = "m"
    /\ DateLE(current_date, end_date)
    /\ ranges' = Append(ranges, MonthlyPeriod(current_date, start_date, end_date))
    /\ IF MonthlyAdvance(current_date) = DateValueError
          THEN pr_pc' = "raised" /\ UNCHANGED current_date
          ELSE pr_pc' = "loop" /\ current_date' = MonthlyAdvance(current_date)
    /\ UNCHANGED <<start_date, end_date, period_type>>
    /\ UNCHANGED OutsidePeriods

\* one iteration of `while current_date <= end_date` (quarterly branch)
QuarterlyStep ==
    /\ pr_pc = "loop"
    /\ period_type = "q"
    /\ DateLE(current_date, end_date)
    /\ ranges' = Append(ranges, QuarterlyPeriod(current_date, start_date, end_date))
    /\ IF QuarterlyAdvance(current_date) = DateValueError
          THEN pr_pc' = "raised" /\ UNCHANGED current_date
          ELSE pr_pc' = "loop" /\ current_date' = QuarterlyAdvance(current_date)
    /\ UNCHANGED <<start_date, end_date, period_type>>
    /\ UNCHANGED OutsidePeriods

\* the loop condition fails: return ranges
PeriodsReturn ==
    /\ pr_pc = "loop"
    /\ ~DateLE(current_date, end_date)
    /\ pr_pc' = "returned"
    /\ UNCHANGED <<start_date, end_date, period_type, current_date, ranges>>
    /\ UNCHANGED OutsidePeriods

NextPeriods == MonthlyStep \/ QuarterlyStep \/ PeriodsReturn

\* get_period_ranges as a function: the ranges the loop returns, or
\* <<DateValueError>> when a replace raises
RECURSIVE PeriodLoop(_, _, _, _, _)
PeriodLoop(cur, start, end, ptype, acc) ==
    IF ~DateLE(cur, end) THEN acc
    ELSE LET period == IF ptype = "m" THEN MonthlyPeriod(cur, start, end)
                       ELSE QuarterlyPeriod(cur, start, end)
             nxt == IF ptype = "m" THEN MonthlyAdvance(cur)
                    ELSE QuarterlyAdvance(cur)
         IN  IF nxt = DateValueError THEN <<DateValueError>>
             ELSE PeriodLoop(nxt, start, end, ptype, Append(acc, period))

GetPeriodRanges(start, end, ptype) == PeriodLoop(start, start, end, ptype, <<>>)

(***************************************************************************)
(* Finite maps (dict / defaultdict)                                        *)
(***************************************************************************)

EmptyMap == [x \in {} |-> 0]

\* d.get(k, default)
MapGet(m, k, default) == IF k \in DOMAIN m THEN m[k] ELSE default

\* d[k] = v
MapPut(m, k, v) == [x \in (DOMAIN m) \cup {k} |-> IF x = k THEN v ELSE m[x]]

(***************************************************************************)
(* Decimal arithmetic at cent precision                                    *)
(***************************************************************************)

\* n/d rounded to the nearest integer, ties to even (d > 0): the rounding of
\* Decimal.quantize under the default context (ROUND_HALF_EVEN)
RoundHalfEven(n, d) ==
    LET q == n \div d
        r == n % d
    IN  IF 2 * r < d THEN q
        ELSE IF 2 * r > d THEN q + 1
        ELSE IF q % 2 = 0 THEN q ELSE q + 1

\* (Decimal(num) / Decimal(den)).quantize(Decimal('0.01')), in cents
QuantizeFraction(num, den) ==
    IF den > 0 THEN RoundHalfEven(num * 100, den)
    ELSE RoundHalfEven(-(num * 100), -den)

\* the text of a split:value element: two integers around a slash
\* ("num/den"), a text without a slash, two words around a slash
\* ("abc/def"), a text with two slashes ("1/2/3"), a decimal number over an
\* integer ("1.5/2", the numerator given in tenths)
FracText(num, den) == [form |-> "frac", num |-> num, den |-> den]
PlainText(num) == [form |-> "plain", num |-> num, den |-> 1]
WordsText == [form |-> "words", num |-> 0, den |-> 1]
TwoSlashText == [form |-> "slashes", num |-> 0, den |-> 1]
DecimalText(tenths, den) == [form |-> "decimal", num |-> tenths, den |-> den]

\* whether parse_gnucash_value raises: Decimal(part) on a part that is not a
\* number (decimal.InvalidOperation), the division by a zero denominator
\* (decimal.DivisionByZero, or InvalidOperation for 0/0)
ParseGnucashValueRaises(value_str) ==
    \/ value_str.form = "words"
    \/ value_str.form \in {"frac", "decimal"} /\ value_str.den = 0

\* the value parse_gnucash_value returns when it does not raise:
\* len(value_str.split('/')) == 2 gives the quantized quotient, anything
\* else Decimal('0')
ParseGnucashValue(value_str) ==
    IF value_str.form = "frac" THEN QuantizeFraction(value_str.num, value_str.den)
    ELSE IF value_str.form = "decimal"
    THEN QuantizeFraction(value_str.num, 10 * value_str.den)
    ELSE 0

(***************************************************************************)
(* Text and regular expressions.  A text is a sequence of characters; the  *)
(* patterns of the model are literal words, for which re.search(pattern,   *)
(* text, re.IGNORECASE) is case-insensitive substring search.              *)
(***************************************************************************)

Lower(c) ==
    CASE c = "N" -> "n"
      [] c = "R" -> "r"
      [] OTHER -> c

ReSearchIgnoreCase(pattern, text) ==
    \E i \in 0..(Len(text) - Len(pattern)) :
        \A j \in 1..Len(pattern) : Lower(text[i + j]) = Lower(pattern[j])

\* an XML child element with text content: absent (find() returns None),
\* present with no text (.text is None), or present with text
NoElem == [kind |-> "absent", text |-> <<>>]
EmptyElem == [kind |-> "empty", text |-> <<>>]
TextElem(s) == [kind |-> "text", text |-> s]

\* `elem.text if elem is not None else ""`: "" for an absent element, None
\* for an element without text, else the text
ElemTextOrEmpty(e) ==
    IF e.kind = "absent" THEN [none |-> FALSE, text |-> <<>>]
    ELSE IF e.kind = "empty" THEN [none |-> TRUE, text |-> <<>>]
    ELSE [none |-> FALSE, text |-> e.text]

\* how an f-string formats the value: None prints as the word None
FormatValue(v) == IF v.none THEN <<"N", "o", "n", "e">> ELSE v.text

\* search_text = f"{description} {notes}"
SearchText(trn) ==
    FormatValue(ElemTextOrEmpty(trn.description)) \o <<" ">>
        \o FormatValue(ElemTextOrEmpty(trn.notes))

\* transaction_matches_regex: an exclude match disqualifies, then every
\* include pattern must match
TransactionMatchesRegex(trn, include_patterns, exclude_patterns) ==
    /\ \A k \in 1..Len(exclude_patterns) :
           ~ReSearchIgnoreCase(exclude_patterns[k], SearchText(trn))
    /\ \A k \in 1..Len(include_patterns) :
           ReSearchIgnoreCase(include_patterns[k], SearchText(trn))

(***************************************************************************)
(* CacheKey and the transaction store                                      *)
(***************************************************************************)

\* CacheKey.__init__; __eq__/__hash__ compare the four components, which is
\* record equality.  `tuple(x) if x else None` stores an empty pattern list as
\* None: the model writes both "no patterns" and None as the empty tuple.
CacheKey(account_guid, filter_guid, regex_include, regex_exclude) ==
    [account_guid |-> account_guid,
     filter_guid |-> filter_guid,
     regex_include |-> regex_include,
     regex_exclude |-> regex_exclude]

\* the truth value of a string or None: None and "" are false
Truthy(s) == s # None /\ s # ""

\* date_posted_elem is None
NoDatePosted == <<0, 0, 0>>

\* the period index (0-based) of a date: the first period containing it, or
\* -1 for `period_idx is None`
RECURSIVE PeriodIndexFrom(_, _, _)
PeriodIndexFrom(trn_date, periods, idx) ==
    IF idx >= Len(periods) THEN -1
    ELSE IF DateLE(periods[idx + 1][1], trn_date) /\ DateLE(trn_date, periods[idx + 1][2])
         THEN idx
    ELSE PeriodIndexFrom(trn_date, periods, idx + 1)

\* a period lookup that excludes the first day of each period
RECURSIVE PeriodIndexFromStrict(_, _, _)
PeriodIndexFromStrict(trn_date, periods, idx) ==
    IF idx >= Len(periods) THEN -1
    ELSE IF DateLT(periods[idx + 1][1], trn_date) /\ DateLE(trn_date, periods[idx + 1][2])
         THEN idx
    ELSE PeriodIndexFromStrict(trn_date, periods, idx + 1)

PeriodIndexOfStrict(trn_date, periods) == PeriodIndexFromStrict(trn_date, periods, 0)

PeriodIndexOf(trn_date, periods) == PeriodIndexFrom(trn_date, periods, 0)

\* cache[split_guid][period_idx] += value on a defaultdict of defaultdicts
CacheAdd(cache, guid, period_idx, value) ==
    LET inner == MapGet(cache, guid, EmptyMap)
    IN  MapPut(cache, guid, MapPut(inner, period_idx, MapGet(inner, period_idx, 0) + value))

\* the loop over the splits of one transaction in build_transaction_cache
RECURSIVE BaseAddSplits(_, _, _, _, _)
BaseAddSplits(cache, splits, k, period_idx, guids) ==
    IF k > Len(splits) THEN cache
    ELSE LET sp == splits[k]
             next == IF sp.account = None THEN cache
                     ELSE IF sp.account \notin guids THEN cache
                     ELSE IF sp.value.form = "absent" THEN cache
                     ELSE CacheAdd(cache, sp.account, period_idx, ParseGnucashValue(sp.value))
         IN  BaseAddSplits(next, splits, k + 1, period_idx, guids)

\* the body of the transaction loop of build_transaction_cache
BaseCacheAddTrn(cache, trn, periods, guids) ==
    IF trn.date = NoDatePosted THEN cache
    ELSE IF PeriodIndexOf(trn.date, periods) = -1 THEN cache
    ELSE BaseAddSplits(cache, trn.splits, 1, PeriodIndexOf(trn.date, periods), guids)

\* FILTER check: some split of the transaction is on the filter account
HasFilterSplit(trn, filter_guid) ==
    \E k \in 1..Len(trn.splits) :
        trn.splits[k].account # None /\ trn.splits[k].account = filter_guid

\* the two `continue` conditions of the per-key loop
PassesKey(trn, cache_key) ==
    /\ Truthy(cache_key.filter_guid) => HasFilterSplit(trn, cache_key.filter_guid)
    /\ (Len(cache_key.regex_include) > 0 \/ Len(cache_key.regex_exclude) > 0)
          => TransactionMatchesRegex(trn, cache_key.regex_include, cache_key.regex_exclude)

\* the splits of the transaction on the key's target account, added up
\* a total over the splits of every account of the transaction
RECURSIVE TargetSplitsTotalAnyAccount(_, _, _)
TargetSplitsTotalAnyAccount(splits, k, account_guid) ==
    IF k > Len(splits) THEN 0
    ELSE (IF splits[k].account # None /\ splits[k].value.form # "absent"
          THEN ParseGnucashValue(splits[k].value) ELSE 0)
         + TargetSplitsTotalAnyAccount(splits, k + 1, account_guid)

RECURSIVE TargetSplitsTotal(_, _, _)
TargetSplitsTotal(splits, k, account_guid) ==
    IF k > Len(splits) THEN 0
    ELSE (IF splits[k].account # None /\ splits[k].account = account_guid
             /\ splits[k].value.form # "absent"
          THEN ParseGnucashValue(splits[k].value) ELSE 0)
         + TargetSplitsTotal(splits, k + 1, account_guid)

\* whether the inner split loop executes `+=` at least once for the key
TouchesTarget(trn, account_guid) ==
    \E k \in 1..Len(trn.splits) :
        /\ trn.splits[k].account # None
        /\ trn.splits[k].account = account_guid
        /\ trn.splits[k].value.form # "absent"

\* the body of the transaction loop of build_all_filtered_caches: every key
\* of required_caches is tested against the transaction
FilteredCachesAddTrn(caches, trn, periods, required) ==
    IF trn.date = NoDatePosted THEN caches
    ELSE IF PeriodIndexOf(trn.date, periods) = -1 THEN caches
    ELSE LET period_idx == PeriodIndexOf(trn.date, periods)
         IN  [key \in DOMAIN caches |->
                IF key \in required /\ PassesKey(trn, key)
                   /\ TouchesTarget(trn, key.account_guid)
                THEN MapPut(caches[key], period_idx,
                            MapGet(caches[key], period_idx, 0)
                              + TargetSplitsTotal(trn.splits, 1, key.account_guid))
                ELSE caches[key]]

\* a builder that walks the store once per required key
TransactionIterPerKey(trns, required) ==
    [i \in 1..(Len(trns) * Cardinality(required)) |-> ((i - 1) % Len(trns)) + 1]

\* root.findall('.//gnc:transaction', NS): the positions of the store the
\* transaction loop of build_all_filtered_caches walks through
TransactionIter(trns, required) == [i \in 1..Len(trns) |-> i]

(***************************************************************************)
(* The inputs of the cache builders                                        *)
(***************************************************************************)

NoValueElem == [form |-> "absent", num |-> 0, den |-> 1]

Split(account, value) == [account |-> account, value |-> value]

Transaction(date, description, notes, splits) ==
    [date |-> date, description |-> description, notes |-> notes, splits |-> splits]

WordRent == <<"R", "e", "n", "t">>
WordRentLower == <<"r", "e", "n", "t">>
WordNone == <<"n", "o", "n", "e">>
WordTone == <<"t", "o", "n", "e">>

\* the transactions a store is made of: dated on the first and the last day
\* of a period, outside every period and without a posted date; with a
\* description, with an empty description element and with none; with notes;
\* with two splits on one account, a split without value and one without
\* account
TrnRentJan1 ==
    Transaction(<<2025, 1, 1>>, TextElem(WordRent), NoElem,
        <<Split("A", FracText(10000, 100)), Split("B", FracText(-10000, 100))>>)
TrnEmptyJan31 ==
    Transaction(<<2025, 1, 31>>, EmptyElem, NoElem,
        <<Split("A", FracText(1, 3)), Split("C", FracText(-1, 3))>>)
TrnUndated ==
    Transaction(NoDatePosted, TextElem(WordRent), NoElem,
        <<Split("A", FracText(5000, 100)), Split("B", FracText(-5000, 100))>>)
TrnToneMar1 ==
    Transaction(<<2025, 3, 1>>, TextElem(WordTone), TextElem(WordRentLower),
        <<Split("A", FracText(2500, 100)), Split("A", FracText(15, 1000)),
          Split("B", FracText(-2515, 1000))>>)
TrnOddFeb1 ==
    Transaction(<<2025, 2, 1>>, NoElem, EmptyElem,
        <<Split("B", FracText(700, 100)), Split("C", NoValueElem),
          Split(None, FracText(100, 100)), Split("C", PlainText(700))>>)
TrnToneFeb28 ==
    Transaction(<<2025, 2, 28>>, TextElem(WordTone), NoElem,
        <<Split("C", FracText(4200, 100)), Split("A", FracText(-4200, 100))>>)

TrnMenu ==
    {TrnRentJan1, TrnEmptyJan31, TrnUndated, TrnToneMar1, TrnOddFeb1, TrnToneFeb28}

\* the longest store
MaxTrn == 2

StoreMenu == UNION {[1..n -> TrnMenu] : n \in 0..MaxTrn}

\* the period lists the builders are called with: results of get_period_ranges
PeriodRangesMenu ==
    { GetPeriodRanges(<<2025, 1, 1>>, <<2025, 2, 28>>, "m"),
      GetPeriodRanges(<<2025, 1, 15>>, <<2025, 3, 31>>, "q") }

\* the cache keys a report may require
KeyMenu ==
    { CacheKey("A", "B", <<>>, <<>>),
      CacheKey("A", "A", <<>>, <<>>),
      CacheKey("A", None, <<WordRentLower>>, <<>>),
      CacheKey("A", None, <<>>, <<WordNone>>),
      CacheKey("B", "C", <<WordRentLower>>, <<WordTone>>) }

\* the most keys of one report
MaxKeys == 2

AccountGuidsMenu == {{"A", "B", "C"}, {"A", "B"}}

(***************************************************************************)
(* build_transaction_cache followed by build_all_filtered_caches, one      *)
(* action per iteration of their transaction loops (main, steps 6 and 7)   *)
(***************************************************************************)

InitCache ==
    /\ store \in StoreMenu
    /\ period_ranges \in PeriodRangesMenu
    /\ account_guids \in AccountGuidsMenu
    /\ required_caches \in {ks \in SUBSET KeyMenu : Cardinality(ks) <= MaxKeys}
    /\ transaction_cache = EmptyMap
    /\ filtered_caches = EmptyMap
    /\ trn_pos = 1
    /\ trn_visits = [i \in 1..Len(store) |-> 0]
    /\ cache_pc = "base"

\* one iteration of the transaction loop of build_transaction_cache
BaseCacheStep ==
    /\ cache_pc = "base"
    /\ trn_pos <= Len(store)
    /\ transaction_cache' =
          BaseCacheAddTrn(transaction_cache, store[trn_pos], period_ranges, account_guids)
    /\ trn_pos' = trn_pos + 1
    /\ UNCHANGED <<store, period_ranges, account_guids, required_caches,
                   filtered_caches, trn_visits, cache_pc>>
    /\ UNCHANGED OutsideCache

\* build_transaction_cache returns; build_all_filtered_caches starts and
\* initializes the storage of every required key
FilteredStart ==
    /\ cache_pc = "base"
    /\ trn_pos > Len(store)
    /\ required_caches # {}
    /\ filtered_caches' = [key \in required_caches |-> EmptyMap]
    /\ trn_pos' = 1
    /\ cache_pc' = "filtered"
    /\ UNCHANGED <<store, period_ranges, account_guids, required_caches,
                   transaction_cache, trn_visits>>
    /\ UNCHANGED OutsideCache

\* `if not required_caches: return {}`
FilteredEarlyReturn ==
    /\ cache_pc = "base"
    /\ trn_pos > Len(store)
    /\ required_caches = {}
    /\ filtered_caches' = EmptyMap
    /\ cache_pc' = "done"
    /\ UNCHANGED <<store, period_ranges, account_guids, required_caches,
                   transaction_cache, trn_pos, trn_visits>>
    /\ UNCHANGED OutsideCache

\* one iteration of the transaction loop of build_all_filtered_caches
FilteredCacheStep ==
    /\ cache_pc = "filtered"
    /\ trn_pos <= Len(TransactionIter(store, required_caches))
    /\ LET i == TransactionIter(store, required_caches)[trn_pos]
       IN  /\ filtered_caches' =
                 FilteredCachesAddTrn(filtered_caches, store[i], period_ranges, required_caches)
           /\ trn_visits' = [trn_visits EXCEPT ![i] = @ + 1]
    /\ trn_pos' = trn_pos + 1
    /\ UNCHANGED <<store, period_ranges, account_guids, required_caches,
                   transaction_cache, cache_pc>>
    /\ UNCHANGED OutsideCache

\* the loop is exhausted: return filtered_caches
FilteredReturn ==
    /\ cache_pc = "filtered"
    /\ trn_pos > Len(TransactionIter(store, required_caches))
    /\ cache_pc' = "done"
    /\ UNCHANGED <<store, period_ranges, account_guids, required_caches,
                   transaction_cache, filtered_caches, trn_pos, trn_visits>>
    /\ UNCHANGED OutsideCache

NextCache ==
    \/ BaseCacheStep
    \/ FilteredStart
    \/ FilteredEarlyReturn
    \/ FilteredCacheStep
    \/ FilteredReturn

\* the two builders as functions of the whole store
RECURSIVE BuildTransactionCacheFrom(_, _, _, _, _)
BuildTransactionCacheFrom(cache, trns, i, periods, guids) ==
    IF i > Len(trns) THEN cache
    ELSE BuildTransactionCacheFrom(BaseCacheAddTrn(cache, trns[i], periods, guids),
                                   trns, i + 1, periods, guids)

BuildTransactionCache(trns, periods, guids) ==
    BuildTransactionCacheFrom(EmptyMap, trns, 1, periods, guids)

RECURSIVE BuildAllFilteredCachesFrom(_, _, _, _, _)
BuildAllFilteredCachesFrom(caches, trns, i, periods, required) ==
    IF i > Len(trns) THEN caches
    ELSE BuildAllFilteredCachesFrom(
             FilteredCachesAddTrn(caches, trns[i], periods, required),
             trns, i + 1, periods, required)

BuildAllFilteredCaches(trns, periods, required) ==
    IF required = {} THEN EmptyMap
    ELSE BuildAllFilteredCachesFrom([key \in required |-> EmptyMap],
                                    trns, 1, periods, required)

(***************************************************************************)
(* Report elements (ReportElement and its subclasses) and the registry     *)
(***************************************************************************)

\* ReportElement.reference = None
NoReference == -1

\* AccountElement.operation = None; otherwise (operator, operand), the
\* operand a Decimal written as the fraction num/den
NoOperation == [operator |-> "none", num |-> 0, den |-> 1]
Operation(operator, num, den) == [operator |-> operator, num |-> num, den |-> den]

Element(type, reference) ==
    [type |-> type, line_num |-> 0, reference |-> reference,
     guid |-> "", operation |-> NoOperation, recursive |-> FALSE,
     filter_guid |-> None, regex_include |-> <<>>, regex_exclude |-> <<>>,
     values |-> <<>>, formula |-> <<>>]

SectionElement(reference) == Element("section", reference)
TitleElement(reference) == Element("title", reference)
BlankElement == Element("blank", NoReference)
SumElement(reference) == Element("sum", reference)

AccountElement(reference, guid, operation, recursive, filter_guid, include, exclude) ==
    [Element("account", reference) EXCEPT
        !.guid = guid, !.operation = operation, !.recursive = recursive,
        !.filter_guid = filter_guid, !.regex_include = include,
        !.regex_exclude = exclude]

PlaceholderElement(reference, values) ==
    [Element("placeholder", reference) EXCEPT !.values = values]

CalcElement(reference, formula) ==
    [Element("calc", reference) EXCEPT !.formula = formula]

\* class Account: one entry of the accounts dict
Account(guid, parent_guid, account_type) ==
    [guid |-> guid, parent_guid |-> parent_guid, account_type |-> account_type]

\* `guid in accounts` and accounts[guid], the registry being the sequence of
\* its entries in dict order
InAccounts(guid, accts) == \E i \in 1..Len(accts) : accts[i].guid = guid

AccountOf(guid, accts) ==
    accts[CHOOSE i \in 1..Len(accts) : accts[i].guid = guid]

(***************************************************************************)
(* identify_required_caches                                                *)
(***************************************************************************)

NeedsFilteredCache(elem) ==
    Truthy(elem.filter_guid) \/ Len(elem.regex_include) > 0 \/ Len(elem.regex_exclude) > 0

ElementCacheKey(elem) ==
    CacheKey(elem.guid, elem.filter_guid, elem.regex_include, elem.regex_exclude)

\* a scan that asks for a cache only for the rows with a FILTER
IdentifyRequiredCachesFilterOnly(elems) ==
    {ElementCacheKey(elems[i]) :
        i \in {j \in 1..Len(elems) : elems[j].type = "account" /\ Truthy(elems[j].filter_guid)}}

IdentifyRequiredCaches(elems) ==
    {ElementCacheKey(elems[i]) :
        i \in {j \in 1..Len(elems) : elems[j].type = "account" /\ NeedsFilteredCache(elems[j])}}

(***************************************************************************)
(* apply_operation                                                         *)
(***************************************************************************)

\* an apply_operation that leaves the value alone when it is divided by zero
ApplyOperationValueKeepOnZero(value, operation) ==
    LET n == IF operation.den > 0 THEN operation.num ELSE -operation.num
        d == IF operation.den > 0 THEN operation.den ELSE -operation.den
    IN  CASE operation.operator \in {"*", "%"} -> RoundHalfEven(value * n, d)
          [] operation.operator = "/" ->
                 IF n = 0 THEN value
                 ELSE IF n > 0 THEN RoundHalfEven(value * d, n)
                 ELSE RoundHalfEven(-(value * d), -n)
          [] operation.operator = "+" -> RoundHalfEven(value * d + 100 * n, d)
          [] operation.operator = "-" -> RoundHalfEven(value * d - 100 * n, d)
          [] OTHER -> value

\* one value (in cents) of apply_operation; every result is quantized to
\* 0.01 with the default rounding
ApplyOperationValue(value, operation) ==
    LET n == IF operation.den > 0 THEN operation.num ELSE -operation.num
        d == IF operation.den > 0 THEN operation.den ELSE -operation.den
    IN  CASE operation.operator \in {"*", "%"} -> RoundHalfEven(value * n, d)
          [] operation.operator = "/" ->
                 IF n = 0 THEN 0
                 ELSE IF n > 0 THEN RoundHalfEven(value * d, n)
                 ELSE RoundHalfEven(-(value * d), -n)
          [] operation.operator = "+" -> RoundHalfEven(value * d + 100 * n, d)
          [] operation.operator = "-" -> RoundHalfEven(value * d - 100 * n, d)
          [] OTHER -> value

ApplyOperation(values, operation) ==
    [i \in 1..Len(values) |-> ApplyOperationValue(values[i], operation)]

(***************************************************************************)
(* get_descendant_guids                                                    *)
(***************************************************************************)

\* add_children(parent_guid), from the i-th entry of the registry on: every
\* child is appended and its own children are added right after it
RECURSIVE AddChildren(_, _, _, _)
AddChildren(parent_guid, accts, i, guids) ==
    IF i > Len(accts) THEN guids
    ELSE IF accts[i].parent_guid = parent_guid
         THEN AddChildren(parent_guid, accts, i + 1,
                  AddChildren(accts[i].guid, accts, 1,
                              Append(guids, accts[i].guid)))
    ELSE AddChildren(parent_guid, accts, i + 1, guids)

GetDescendantGuids(account_guid, accts) ==
    AddChildren(account_guid, accts, 1, <<account_guid>>)

(***************************************************************************)
(* calculate_account_values                                                *)
(***************************************************************************)

ZeroValues(num_periods) == [i \in 1..num_periods |-> 0]

\* the stored result of an Account row; filtered and regex_filtered are
\* keys the result dict holds only when such a series was computed
AccountResult(valid, raw, filtered, regex_filtered, final) ==
    [valid |-> valid, raw |-> raw, filtered |-> filtered,
     regex_filtered |-> regex_filtered, final |-> final]

\* a key that is not in the result dict
NoSeries == <<>>

\* sum over the target accounts of transaction_cache.get(guid, {}).get(idx, 0)
RECURSIVE PeriodTotal(_, _, _, _)
PeriodTotal(target_guids, k, cache, period_idx) ==
    IF k > Len(target_guids) THEN 0
    ELSE MapGet(MapGet(cache, target_guids[k], EmptyMap), period_idx, 0)
         + PeriodTotal(target_guids, k + 1, cache, period_idx)

\* config.invert_income and the type of the element's own account
InvertsIncome(elem, accts, invert) ==
    invert /\ AccountOf(elem.guid, accts).account_type = "INCOME"

\* a calculator that negates the filtered series of an INCOME row a second
\* time
ValidAccountValuesNegatedTwice(elem, num_periods, accts, invert, cache, caches) ==
    LET target_guids == IF elem.recursive THEN GetDescendantGuids(elem.guid, accts)
                        ELSE <<elem.guid>>
        sign == IF InvertsIncome(elem, accts, invert) THEN -1 ELSE 1
        raw_values == [i \in 1..num_periods |->
                          sign * PeriodTotal(target_guids, 1, cache, i - 1)]
        cache_key == ElementCacheKey(elem)
        has_filtered == NeedsFilteredCache(elem) /\ cache_key \in DOMAIN caches
        filtered_values == [i \in 1..num_periods |->
                               sign * (sign * MapGet(caches[cache_key], i - 1, 0))]
        is_regex == Len(elem.regex_include) > 0 \/ Len(elem.regex_exclude) > 0
        working_values == IF has_filtered THEN filtered_values ELSE raw_values
    IN  AccountResult(TRUE, raw_values,
            IF has_filtered /\ ~is_regex THEN filtered_values ELSE NoSeries,
            IF has_filtered /\ is_regex THEN filtered_values ELSE NoSeries,
            IF elem.operation.operator # "none"
            THEN ApplyOperation(working_values, elem.operation)
            ELSE working_values)

\* the function from `result['valid'] = True` on
ValidAccountValues(elem, num_periods, accts, invert, cache, caches) ==
    LET target_guids == IF elem.recursive THEN GetDescendantGuids(elem.guid, accts)
                        ELSE <<elem.guid>>
        sign == IF InvertsIncome(elem, accts, invert) THEN -1 ELSE 1
        raw_values == [i \in 1..num_periods |->
                          sign * PeriodTotal(target_guids, 1, cache, i - 1)]
        cache_key == ElementCacheKey(elem)
        has_filtered == NeedsFilteredCache(elem) /\ cache_key \in DOMAIN caches
        filtered_values == [i \in 1..num_periods |->
                               sign * MapGet(caches[cache_key], i - 1, 0)]
        is_regex == Len(elem.regex_include) > 0 \/ Len(elem.regex_exclude) > 0
        working_values == IF has_filtered THEN filtered_values ELSE raw_values
    IN  AccountResult(TRUE, raw_values,
            IF has_filtered /\ ~is_regex THEN filtered_values ELSE NoSeries,
            IF has_filtered /\ is_regex THEN filtered_values ELSE NoSeries,
            IF elem.operation.operator # "none"
            THEN ApplyOperation(working_values, elem.operation)
            ELSE working_values)

\* a calculator that applies the operation of a row to the zeros of an
\* unknown account
CalculateAccountValuesInvalidOperated(elem, num_periods, accts, invert, cache, caches) ==
    IF ~InAccounts(elem.guid, accts)
    THEN AccountResult(FALSE, ZeroValues(num_periods), NoSeries, NoSeries,
                       IF elem.operation.operator # "none"
                       THEN ApplyOperation(ZeroValues(num_periods), elem.operation)
                       ELSE ZeroValues(num_periods))
    ELSE ValidAccountValues(elem, num_periods, accts, invert, cache, caches)

CalculateAccountValues(elem, num_periods, accts, invert, cache, caches) ==
    IF ~InAccounts(elem.guid, accts)
    THEN AccountResult(FALSE, ZeroValues(num_periods), NoSeries, NoSeries,
                       ZeroValues(num_periods))
    ELSE ValidAccountValues(elem, num_periods, accts, invert, cache, caches)

(***************************************************************************)
(* calculate_sum_values                                                    *)
(***************************************************************************)

\* elements.index(elem)
IndexOfLine(elems, num) ==
    CHOOSE i \in 1..Len(elems) : elems[i].line_num = num

AddSeries(a, b) == [i \in 1..Len(a) |-> a[i] + b[i]]

\* the row's contribution to sum_values
SumAdd(elem, stored, sum_values) ==
    IF elem.type = "account"
    THEN IF elem.line_num \in DOMAIN stored
         THEN AddSeries(sum_values, stored[elem.line_num].final)
         ELSE sum_values
    ELSE IF elem.type = "placeholder" THEN AddSeries(sum_values, elem.values)
    ELSE sum_values

\* a scan that walks past Calc rows
RECURSIVE SumScanPastCalc(_, _, _, _)
SumScanPastCalc(elems, i, stored, sum_values) ==
    IF i < 1 THEN sum_values
    ELSE IF elems[i].type \in {"title", "sum"} THEN sum_values
    ELSE SumScanPastCalc(elems, i - 1, stored, SumAdd(elems[i], stored, sum_values))

\* a scan that also stops at a Section row
RECURSIVE SumScanToSection(_, _, _, _)
SumScanToSection(elems, i, stored, sum_values) ==
    IF i < 1 THEN sum_values
    ELSE IF elems[i].type \in {"title", "sum", "calc", "section"} THEN sum_values
    ELSE SumScanToSection(elems, i - 1, stored, SumAdd(elems[i], stored, sum_values))

\* the backward loop `for i in range(elem_idx - 1, -1, -1)` from position i
RECURSIVE SumScan(_, _, _, _)
SumScan(elems, i, stored, sum_values) ==
    IF i < 1 THEN sum_values
    ELSE IF elems[i].type \in {"title", "sum", "calc"} THEN sum_values
    ELSE IF elems[i].type \in {"section", "blank"}
         THEN SumScan(elems, i - 1, stored, sum_values)
    ELSE SumScan(elems, i - 1, stored, SumAdd(elems[i], stored, sum_values))

CalculateSumValues(elem, elems, stored, num_periods) ==
    SumScan(elems, IndexOfLine(elems, elem.line_num) - 1, stored, ZeroValues(num_periods))

(***************************************************************************)
(* calculate_calc_values.  A formula is a sequence of tokens: a reference  *)
(* [n], a numeric literal, a literal followed by %, or one of + - * /.     *)
(* eval of the substituted text evaluates Python's expression grammar over *)
(* these tokens: terms joined by + and -, a term being factors joined by   *)
(* the two other operators, a factor being a number behind any number of   *)
(* signs.  The floats of eval are taken as exact fractions, which they are *)
(* to the cent for the amounts used here.                                  *)
(***************************************************************************)

RefToken(n) == [t |-> "ref", n |-> n, num |-> 0, den |-> 1]
NumToken(num, den) == [t |-> "num", n |-> 0, num |-> num, den |-> den]
PctToken(num, den) == [t |-> "pct", n |-> 0, num |-> num, den |-> den]
OpToken(op) == [t |-> op, n |-> 0, num |-> 0, den |-> 1]

\* Euclid's algorithm; x and y hold the values of a and b
RECURSIVE Gcd(_, _)
Gcd(a, b) ==
    CHOOSE g \in {IF y = 0 THEN x ELSE Gcd(y, x % y) : x \in {a}, y \in {b}} : TRUE

Abs(x) == IF x < 0 THEN -x ELSE x

\* the fraction num/den in lowest terms with a positive denominator
Fraction(num, den) ==
    LET g == Gcd(Abs(num), Abs(den))
        sg == IF den < 0 THEN -1 ELSE 1
    IN  [num |-> sg * (num \div g), den |-> sg * (den \div g)]

\* the state of the evaluation after some tokens: the sum of the finished
\* terms (acc), the sign the current term enters it with (addop), the
\* current term, the operator waiting for its right factor (mulop), the
\* sign collected for the next factor (neg), and what may come next
EvalStart ==
    [ok |-> TRUE, acc |-> Fraction(0, 1), addop |-> "+", term |-> Fraction(0, 1),
     mulop |-> "none", neg |-> FALSE, expect |-> "operand"]

EvalFail == [EvalStart EXCEPT !.ok = FALSE]

\* acc with the current term added or subtracted
EvalClosed(st) ==
    IF st.addop = "+"
    THEN Fraction(st.acc.num * st.term.den + st.term.num * st.acc.den,
                  st.acc.den * st.term.den)
    ELSE Fraction(st.acc.num * st.term.den - st.term.num * st.acc.den,
                  st.acc.den * st.term.den)

\* the current term with the factor num/den applied; x / 0 raises
\* ZeroDivisionError
EvalOperand(st, num, den) ==
    LET n == IF st.neg THEN -num ELSE num
    IN  IF st.mulop = "/" /\ n = 0 THEN EvalFail
        ELSE [st EXCEPT
                 !.term = IF st.mulop = "none" THEN Fraction(n, den)
                          ELSE IF st.mulop = "*"
                               THEN Fraction(st.term.num * n, st.term.den * den)
                          ELSE Fraction(st.term.num * den, st.term.den * n),
                 !.neg = FALSE, !.expect = "operator"]

\* one token; a reference left in the text is a list display, on which the
\* arithmetic or the Decimal conversion raises
EvalToken(st, tok) ==
    IF ~st.ok THEN st
    ELSE IF tok.t = "num"
         THEN IF st.expect = "operand" THEN EvalOperand(st, tok.num, tok.den)
              ELSE EvalFail
    ELSE IF tok.t \in {"+", "-"}
         THEN IF st.expect = "operand"
              THEN [st EXCEPT !.neg = IF tok.t = "-" THEN ~st.neg ELSE st.neg]
              ELSE [st EXCEPT !.acc = EvalClosed(st), !.addop = tok.t,
                              !.mulop = "none", !.expect = "operand"]
    ELSE IF tok.t \in {"*", "/"}
         THEN IF st.expect = "operator"
              THEN [st EXCEPT !.mulop = tok.t, !.expect = "operand"]
              ELSE EvalFail
    ELSE EvalFail

\* the tokens from position pos on; s holds the value of st
RECURSIVE EvalScan(_, _, _)
EvalScan(toks, pos, st) ==
    IF pos > Len(toks) THEN st
    ELSE CHOOSE r \in {EvalScan(toks, pos + 1, EvalToken(s, toks[pos])) : s \in {st}} : TRUE

\* eval(formula_str): fails on a syntax error and on a runtime error
EvalFormula(toks) ==
    LET st == EvalScan(toks, 1, EvalStart)
    IN  IF st.ok /\ st.expect = "operator"
        THEN [ok |-> TRUE, num |-> EvalClosed(st).num, den |-> EvalClosed(st).den]
        ELSE [ok |-> FALSE, num |-> 0, den |-> 1]

\* ref_numbers: the [n] of the formula
RefNumbers(formula) ==
    {formula[k].n : k \in {j \in 1..Len(formula) : formula[j].t = "ref"}}

\* ref_elements: the first element carrying the reference, if any
HasRefElement(elems, ref_num) ==
    \E i \in 1..Len(elems) : elems[i].reference = ref_num

RefElement(elems, ref_num) ==
    elems[CHOOSE i \in 1..Len(elems) :
             /\ elems[i].reference = ref_num
             /\ \A j \in 1..(i - 1) : elems[j].reference # ref_num]

\* whether looking the referenced row up raises KeyError: an Account, Sum or
\* Calc row that has no entry in stored_values
RefLookupRaises(ref_elem, stored) ==
    ref_elem.type \in {"account", "sum", "calc"} /\ ref_elem.line_num \notin DOMAIN stored

\* the value substituted for a reference in one period (in cents)
RefValue(ref_elem, stored, period_idx) ==
    IF ref_elem.type = "account" THEN stored[ref_elem.line_num].final[period_idx + 1]
    ELSE IF ref_elem.type = "placeholder" THEN ref_elem.values[period_idx + 1]
    ELSE IF ref_elem.type \in {"sum", "calc"} THEN stored[ref_elem.line_num][period_idx + 1]
    ELSE 0

\* formula_str after the replace loop and the percent rewrite: a resolved
\* reference becomes str(float(value)), X% becomes (X/100)
SubstituteToken(tok, elems, stored, period_idx) ==
    IF tok.t = "ref" /\ HasRefElement(elems, tok.n)
    THEN NumToken(RefValue(RefElement(elems, tok.n), stored, period_idx), 100)
    ELSE IF tok.t = "pct" THEN NumToken(tok.num, tok.den * 100)
    ELSE tok

SubstitutedFormula(formula, elems, stored, period_idx) ==
    [k \in 1..Len(formula) |-> SubstituteToken(formula[k], elems, stored, period_idx)]

\* whether the formula of a referenced Calc row fails in the period
ReferencedCalcFails(tok, elems, stored, period_idx) ==
    /\ tok.t = "ref"
    /\ HasRefElement(elems, tok.n)
    /\ RefElement(elems, tok.n).type = "calc"
    /\ ~EvalFormula(SubstitutedFormula(RefElement(elems, tok.n).formula, elems, stored,
                                       period_idx)).ok

\* an evaluation in which the failure of a referenced row fails the
\* referencing row too
CalcPeriodValuePropagating(formula, elems, stored, period_idx) ==
    LET r == EvalFormula(SubstitutedFormula(formula, elems, stored, period_idx))
    IN  IF \E k \in 1..Len(formula) : ReferencedCalcFails(formula[k], elems, stored, period_idx)
        THEN 0
        ELSE IF r.ok THEN RoundHalfEven(r.num * 100, r.den) ELSE 0

\* the try/except of one period: the rounded result, or Decimal('0')
CalcPeriodValue(formula, elems, stored, period_idx) ==
    LET r == EvalFormula(SubstitutedFormula(formula, elems, stored, period_idx))
    IN  IF r.ok THEN RoundHalfEven(r.num * 100, r.den) ELSE 0

\* the lookups of the replace loop are outside the try: a KeyError leaves
\* the function
CalcRaises(elem, elems, stored) ==
    \E n \in RefNumbers(elem.formula) :
        HasRefElement(elems, n) /\ RefLookupRaises(RefElement(elems, n), stored)

\* a calculator with one try/except around the whole period loop
CalculateCalcValuesAllOrNothing(elem, stored, elems, num_periods) ==
    IF \E i \in 1..num_periods :
          ~EvalFormula(SubstitutedFormula(elem.formula, elems, stored, i - 1)).ok
    THEN ZeroValues(num_periods)
    ELSE [i \in 1..num_periods |-> CalcPeriodValue(elem.formula, elems, stored, i - 1)]

CalculateCalcValues(elem, stored, elems, num_periods) ==
    [i \in 1..num_periods |-> CalcPeriodValue(elem.formula, elems, stored, i - 1)]

(***************************************************************************)
(* parse_date, for the tokens BY and EY, a YYYY-MM-DD date, and a text     *)
(* that is none of the abbreviations and does not parse as a date          *)
(***************************************************************************)

DateToken(kind, date) == [kind |-> kind, date |-> date]

AbbrBY == DateToken("BY", <<0, 0, 0>>)
AbbrEY == DateToken("EY", <<0, 0, 0>>)
DateText(date) == DateToken("ymd", date)
BadDateText == DateToken("bad", <<0, 0, 0>>)

\* the date, or DateValueError when parse_date raises ValueError
ParseDate(token, now) ==
    IF token.kind = "BY" THEN <<now[1], 1, 1>>
    ELSE IF token.kind = "EY" THEN <<now[1], 12, 31>>
    ELSE IF token.kind = "ymd" /\ ValidDate(token.date) THEN token.date
    ELSE DateValueError

(***************************************************************************)
(* parse_report_definition.  A line is given by what the parser reads off  *)
(* it after strip_comments, process_escape_sequences and strip:            *)
(*   tag     the n of a leading "[n] " prefix (NoReference without one)    *)
(*   word    the text before the first colon of the rest of the line (the  *)
(*           whole rest if it has no colon)                                *)
(*   colon   whether the rest of the line has a colon                      *)
(*   text    the stripped text behind the colon (config value, title)      *)
(* and the content of a command line as far as the parser reads it: the    *)
(* GUID, the operation and whether Decimal accepts its operand, whether    *)
(* the content has a bar, the placeholder values and whether Decimal       *)
(* accepts them all, the formula, the quoted patterns, the date token.     *)
(***************************************************************************)

Line(tag, word, colon, text) ==
    [tag |-> tag, word |-> word, colon |-> colon, text |-> text,
     guid |-> "", operation |-> NoOperation, numeric |-> TRUE, bar |-> FALSE,
     values |-> <<>>, formula |-> <<>>, include |-> <<>>, exclude |-> <<>>,
     date |-> BadDateText]

\* a line that is empty after stripping
EmptyLine == Line(NoReference, "", FALSE, "")

AccountLine(tag, word, guid, operation, numeric) ==
    [Line(tag, word, TRUE, "") EXCEPT
        !.guid = guid, !.operation = operation, !.numeric = numeric]

FilterLine(tag, guid) == [Line(tag, "FILTER", TRUE, "") EXCEPT !.guid = guid]

RegexLine(tag, include, exclude) ==
    [Line(tag, "REGEX", TRUE, "") EXCEPT !.include = include, !.exclude = exclude]

PlaceholderLine(tag, bar, values, numeric) ==
    [Line(tag, "PLACEHOLDER", TRUE, "") EXCEPT
        !.bar = bar, !.values = values, !.numeric = numeric]

CalcLine(tag, bar, formula) ==
    [Line(tag, "CALC", TRUE, "") EXCEPT !.bar = bar, !.formula = formula]

DateLine(tag, word, token) == [Line(tag, word, TRUE, "") EXCEPT !.date = token]

\* str.upper and str.lower on the words and values of the model
UpperText(text) ==
    CASE text = "start_date" -> "START_DATE"
      [] text = "Period" -> "PERIOD"
      [] text = "sum" -> "SUM"
      [] text = "blank" -> "BLANK"
      [] OTHER -> text

LowerText(text) ==
    CASE text = "Q" -> "q"
      [] text = "M" -> "m"
      [] text = "No" -> "no"
      [] text = "TRUE" -> "true"
      [] text = "Full_Path" -> "full_path"
      [] OTHER -> text

\* the prefixes of line.startswith((...))
CommandWords ==
    {"SECTION", "TITLE", "ACCOUNT", "ACCOUNTS", "SUM", "CALC", "PLACEHOLDER", "BLANK",
     "FILTER", "REGEX"}

StartsWith(line, word) == line.colon /\ line.word = word

\* `':' in line and not line.startswith((...))`
IsConfigLine(line) == line.colon /\ line.word \notin CommandWords

\* ReportConfig.__init__
NewConfig ==
    [start_date |-> NoDatePosted, end_date |-> NoDatePosted, period |-> "m",
     account_name |-> "name_only", gnucash_file |-> None, csv_file |-> None,
     invert_income |-> TRUE]

\* an exception leaving the parser: its class, and the line number its
\* message starts with, if it does
ParseError(exception, has_line, line, what) ==
    [exception |-> exception, has_line |-> has_line, line |-> line, what |-> what]

NoParseError == ParseError("none", FALSE, 0, "none")

ErrorAtLine(line, what) == ParseError("ValueError", TRUE, line, what)

(***************************************************************************)
(* process_report_elements: one action per iteration of the element loop   *)
(***************************************************************************)

\* `if accounts and tree`
FileLoaded(accts, loaded) == Len(accts) > 0 /\ loaded

\* a loop whose SumElement branch stores nothing
ProcessElementSkippingSum(elem, elems, stored, accts, loaded, invert, cache, caches, num_periods) ==
    IF elem.type = "account"
    THEN MapPut(stored, elem.line_num,
             IF FileLoaded(accts, loaded)
             THEN CalculateAccountValues(elem, num_periods, accts, invert, cache, caches)
             ELSE AccountResult(TRUE, ZeroValues(num_periods), NoSeries, NoSeries,
                                ZeroValues(num_periods)))
    ELSE IF elem.type = "calc" /\ ~CalcRaises(elem, elems, stored)
         THEN MapPut(stored, elem.line_num,
                     CalculateCalcValues(elem, stored, elems, num_periods))
    ELSE stored

\* stored_values after the loop body for one element (a CALC whose lookup
\* raises stores nothing)
ProcessElement(elem, elems, stored, accts, loaded, invert, cache, caches, num_periods) ==
    IF elem.type = "account"
    THEN MapPut(stored, elem.line_num,
             IF FileLoaded(accts, loaded)
             THEN CalculateAccountValues(elem, num_periods, accts, invert, cache, caches)
             ELSE AccountResult(TRUE, ZeroValues(num_periods), NoSeries, NoSeries,
                                ZeroValues(num_periods)))
    ELSE IF elem.type = "sum"
         THEN MapPut(stored, elem.line_num,
                     CalculateSumValues(elem, elems, stored, num_periods))
    ELSE IF elem.type = "calc" /\ ~CalcRaises(elem, elems, stored)
         THEN MapPut(stored, elem.line_num,
                     CalculateCalcValues(elem, stored, elems, num_periods))
    ELSE stored

\* the whole loop as a function, from position i on; s holds the value of
\* stored
RECURSIVE ProcessFrom(_, _, _, _, _, _, _, _, _)
ProcessFrom(elems, i, stored, accts, loaded, invert, cache, caches, num_periods) ==
    IF i > Len(elems) THEN stored
    ELSE CHOOSE r \in
             {ProcessFrom(elems, i + 1,
                  ProcessElement(elems[i], elems, s, accts, loaded, invert, cache,
                                 caches, num_periods),
                  accts, loaded, invert, cache, caches, num_periods) : s \in {stored}} : TRUE

ProcessReportElements(elems, accts, loaded, invert, cache, caches, num_periods) ==
    ProcessFrom(elems, 1, EmptyMap, accts, loaded, invert, cache, caches, num_periods)

NumPeriods == Len(period_ranges)

CurrentElement == elements[elem_pos]

ProcessStep ==
    /\ stored_values' =
          ProcessElement(CurrentElement, elements, stored_values, accounts, tree_loaded,
                         invert_income, transaction_cache, filtered_caches, NumPeriods)
    /\ elem_pos' = elem_pos + 1
    /\ UNCHANGED <<elements, accounts, tree_loaded, invert_income, calc_pc>>
    /\ UNCHANGED OutsideCalc

\* an Account row with a loaded file: calculate_account_values
ProcessAccount ==
    /\ calc_pc = "loop"
    /\ elem_pos <= Len(elements)
    /\ CurrentElement.type = "account"
    /\ FileLoaded(accounts, tree_loaded)
    /\ ProcessStep

\* an Account row without a file: zeros, valid
ProcessAccountNoFile ==
    /\ calc_pc = "loop"
    /\ elem_pos <= Len(elements)
    /\ CurrentElement.type = "account"
    /\ ~FileLoaded(accounts, tree_loaded)
    /\ ProcessStep

\* a Sum row: calculate_sum_values
ProcessSum ==
    /\ calc_pc = "loop"
    /\ elem_pos <= Len(elements)
    /\ CurrentElement.type = "sum"
    /\ ProcessStep

\* a Calc row: calculate_calc_values
ProcessCalc ==
    /\ calc_pc = "loop"
    /\ elem_pos <= Len(elements)
    /\ CurrentElement.type = "calc"
    /\ IF CalcRaises(CurrentElement, elements, stored_values)
       THEN /\ calc_pc' = "raised"
            /\ UNCHANGED <<elements, accounts, tree_loaded, invert_income,
                           stored_values, elem_pos>>
            /\ UNCHANGED OutsideCalc
       ELSE ProcessStep

\* a Section, Title, Placeholder or Blank row: no branch of the loop applies
ProcessOther ==
    /\ calc_pc = "loop"
    /\ elem_pos <= Len(elements)
    /\ CurrentElement.type \in {"section", "title", "placeholder", "blank"}
    /\ ProcessStep

\* return stored_values
ProcessReturn ==
    /\ calc_pc = "loop"
    /\ elem_pos > Len(elements)
    /\ calc_pc' = "returned"
    /\ UNCHANGED <<elements, accounts, tree_loaded, invert_income, stored_values,
                   elem_pos>>
    /\ UNCHANGED OutsideCalc

NextCalc ==
    \/ ProcessAccount
    \/ ProcessAccountNoFile
    \/ ProcessSum
    \/ ProcessCalc
    \/ ProcessOther
    \/ ProcessReturn

(***************************************************************************)
(* The inputs of the calculator: a registry, stores, and element lists     *)
(* that a successful parse can produce (references unique, every CALC      *)
(* reference defined on an earlier line, one element per line)             *)
(***************************************************************************)

\* A is an INCOME account with the child B and the grandchild C; Z has no
\* transactions; "X" is in no registry
CalcAccounts ==
    << Account("R", None, "ROOT"),
       Account("A", "R", "INCOME"),
       Account("Z", "R", "EXPENSE"),
       Account("C", "B", "EXPENSE"),
       Account("B", "A", "INCOME") >>

CalcPeriodRanges == GetPeriodRanges(<<2025, 1, 1>>, <<2025, 2, 28>>, "m")

CalcStoreMenu ==
    { <<TrnRentJan1, TrnEmptyJan31, TrnToneFeb28>>,
      <<TrnOddFeb1, TrnRentJan1>> }

PlainAccount(reference, guid) ==
    AccountElement(reference, guid, NoOperation, FALSE, None, <<>>, <<>>)

\* the rows a list may start with (none carries a reference)
ElemMenu ==
    { TitleElement(NoReference),
      SectionElement(NoReference),
      SumElement(NoReference),
      PlaceholderElement(NoReference, <<500, 700>>),
      PlainAccount(NoReference, "A"),
      PlainAccount(NoReference, "X"),
      CalcElement(NoReference, <<NumToken(2, 1), OpToken("*"), PctToken(50, 1)>>) }

\* the longest such start
MaxPrefix == 2

PrefixMenu == UNION {[1..n -> ElemMenu] : n \in 0..MaxPrefix}

\* SECTION, BLANK, two Account rows with finals 10.00 and 20.00, SUM
TailSectionSum ==
    << SectionElement(NoReference),
       BlankElement,
       AccountElement(NoReference, "Z", Operation("+", 10, 1), FALSE, None, <<>>, <<>>),
       AccountElement(NoReference, "Z", Operation("+", 20, 1), FALSE, None, <<>>, <<>>),
       SumElement(NoReference) >>

\* [1] = 100.00, [2] = 40.00 then 0.00; "[1] - [2]", "[1] / [2]", "[1] * 50%"
\* and the malformed "[1] -"
TailCalc ==
    << AccountElement(1, "Z", Operation("+", 100, 1), FALSE, None, <<>>, <<>>),
       PlaceholderElement(2, <<4000, 0>>),
       CalcElement(NoReference, <<RefToken(1), OpToken("-"), RefToken(2)>>),
       CalcElement(NoReference, <<RefToken(1), OpToken("/"), RefToken(2)>>),
       CalcElement(NoReference, <<RefToken(1), OpToken("*"), PctToken(50, 1)>>),
       CalcElement(NoReference, <<RefToken(1), OpToken("-")>>) >>

\* [2] is a CALC whose formula "[1] / [3]" divides by zero in period 0 only;
\* then "[1] - [2]"
TailCalcOfCalc ==
    << PlaceholderElement(1, <<10000, 5000>>),
       PlaceholderElement(3, <<0, 500>>),
       CalcElement(2, <<RefToken(1), OpToken("/"), RefToken(3)>>),
       CalcElement(NoReference, <<RefToken(1), OpToken("-"), RefToken(2)>>) >>

\* ACCOUNTS: rows: plain, with a FILTER, with a REGEX, with an operation
TailRecursive ==
    << AccountElement(NoReference, "A", NoOperation, TRUE, None, <<>>, <<>>),
       AccountElement(NoReference, "B", NoOperation, TRUE, "A", <<>>, <<>>),
       AccountElement(NoReference, "A", NoOperation, TRUE, None, <<WordRentLower>>, <<>>),
       AccountElement(NoReference, "B", Operation("/", 3, 1), TRUE, None, <<>>, <<>>),
       SumElement(NoReference) >>

\* rows on the unknown account X among valid rows, a SUM and CALC rows
TailInvalid ==
    << PlainAccount(1, "B"),
       AccountElement(NoReference, "X", Operation("+", 5, 1), TRUE, "A", <<>>, <<>>),
       PlaceholderElement(NoReference, <<300, 0>>),
       SumElement(2),
       CalcElement(NoReference, <<RefToken(1), OpToken("+"), RefToken(2)>>),
       PlainAccount(4, "X"),
       CalcElement(NoReference, <<RefToken(4), OpToken("+"), NumToken(1, 1)>>) >>

TailMenu == {TailSectionSum, TailCalc, TailCalcOfCalc, TailRecursive, TailInvalid}

\* the element list of a prefix and a tail, each element on its own line
Numbered(elems) == [i \in 1..Len(elems) |-> [elems[i] EXCEPT !.line_num = i]]

InitCalc ==
    /\ \E prefix \in PrefixMenu, tail \in TailMenu : elements = Numbered(prefix \o tail)
    /\ period_ranges = CalcPeriodRanges
    /\ invert_income \in BOOLEAN
    /\ \/ /\ tree_loaded = TRUE
          /\ accounts = CalcAccounts
          /\ store \in CalcStoreMenu
       \/ /\ tree_loaded = FALSE
          /\ accounts = <<>>
          /\ store = <<>>
          /\ invert_income = TRUE
    /\ account_guids = {accounts[i].guid : i \in 1..Len(accounts)}
    /\ required_caches = IF tree_loaded THEN IdentifyRequiredCaches(elements) ELSE {}
    /\ transaction_cache = BuildTransactionCache(store, period_ranges, account_guids)
    /\ filtered_caches = BuildAllFilteredCaches(store, period_ranges, required_caches)
    /\ trn_pos = Len(store) + 1
    /\ trn_visits = [i \in 1..Len(store) |-> 1]
    /\ cache_pc = "done"
    /\ stored_values = EmptyMap
    /\ elem_pos = 1
    /\ calc_pc = "loop"

(***************************************************************************)
(* parse_report_definition: one action per branch of the line loop, and    *)
(* the defaults and PLACEHOLDER validation after it                        *)
(***************************************************************************)

\* `line_num += 1` at the head of the loop body
ThisLineNum == line_num + 1

ThisLine == lines[line_num + 1]

\* current_reference (NoReference for None)
CurrentReference == ThisLine.tag

\* `if current_reference in references`
IsDuplicateReference ==
    CurrentReference # NoReference /\ CurrentReference \in DOMAIN references

\* `if current_reference: references[current_reference] = line_num`
RecordReference(refs, reference, num) ==
    IF reference # NoReference /\ reference # 0 THEN MapPut(refs, reference, num)
    ELSE refs

\* the parser leaves with an exception
ParseRaise(error) ==
    /\ parse_pc' = "raised"
    /\ parse_error' = error
    /\ line_num' = ThisLineNum
    /\ UNCHANGED <<elements, references, last_account, config, lines, today>>
    /\ UNCHANGED OutsideParse

\* `continue` with the locals as given
ParseContinue(elems, refs, last, cfg) ==
    /\ elements' = elems
    /\ references' = refs
    /\ last_account' = last
    /\ config' = cfg
    /\ line_num' = ThisLineNum
    /\ UNCHANGED <<parse_error, parse_pc, lines, today>>
    /\ UNCHANGED OutsideParse

\* an append that leaves last_account alone unless the element is an account
ParseAppendKeepAccount(elem, last) ==
    ParseContinue(
        Append(elements, [elem EXCEPT !.line_num = ThisLineNum]),
        RecordReference(references, CurrentReference, ThisLineNum),
        IF last = 0 THEN last_account ELSE last, config)

\* the element of the line: its reference and line number set, the reference
\* recorded, the element appended
ParseAppend(elem, last) ==
    ParseContinue(
        Append(elements, [elem EXCEPT !.line_num = ThisLineNum]),
        RecordReference(references, CurrentReference, ThisLineNum),
        last, config)

\* the loop has a next line
ParseNextLine == parse_pc = "lines" /\ line_num < Len(lines)

\* the next line is past `if not line: continue` and the duplicate check
ParseCommand == ParseNextLine /\ ThisLine # EmptyLine /\ ~IsDuplicateReference

\* `if not line: continue`
ParseEmptyLine ==
    /\ ParseNextLine
    /\ ThisLine = EmptyLine
    /\ ParseContinue(elements, references, last_account, config)

\* a reference number that is in references already
ParseDuplicateReference ==
    /\ ParseNextLine
    /\ ThisLine # EmptyLine
    /\ IsDuplicateReference
    /\ ParseRaise(ErrorAtLine(ThisLineNum, "duplicate reference"))

\* config after a configuration line with a value the key accepts, and the
\* error of a value it does not accept (NoParseError when there is none)
ConfigDate(line, now) == ParseDate(line.date, now)

ConfigError(line, num, now) ==
    LET key == UpperText(line.word)
        value == LowerText(line.text)
    IN  IF key \in {"START_DATE", "END_DATE"} /\ ConfigDate(line, now) = DateValueError
        THEN ParseError("ValueError", FALSE, 0, "date")
        ELSE IF key = "PERIOD" /\ value \notin {"m", "q"}
        THEN ErrorAtLine(num, "period")
        ELSE IF key = "ACCOUNT_NAME" /\ value \notin {"full_path", "name_only"}
        THEN ErrorAtLine(num, "account name")
        ELSE IF key = "INVERT_INCOME"
                /\ value \notin {"true", "yes", "1", "false", "no", "0"}
        THEN ErrorAtLine(num, "invert income")
        ELSE NoParseError

ConfigSet(cfg, line, now) ==
    LET key == UpperText(line.word)
        value == LowerText(line.text)
    IN  IF key = "START_DATE" THEN [cfg EXCEPT !.start_date = ConfigDate(line, now)]
        ELSE IF key = "END_DATE" THEN [cfg EXCEPT !.end_date = ConfigDate(line, now)]
        ELSE IF key = "PERIOD" THEN [cfg EXCEPT !.period = value]
        ELSE IF key = "ACCOUNT_NAME" THEN [cfg EXCEPT !.account_name = value]
        ELSE IF key = "GNUCASH_FILE" THEN [cfg EXCEPT !.gnucash_file = line.text]
        ELSE IF key = "CSV_FILE" THEN [cfg EXCEPT !.csv_file = line.text]
        ELSE IF key = "INVERT_INCOME"
        THEN [cfg EXCEPT !.invert_income = value \in {"true", "yes", "1"}]
        ELSE cfg

\* a line with a colon that starts with none of the command prefixes: the
\* key's branch, or no branch at all, and `continue`
ParseConfigLine ==
    /\ ParseCommand
    /\ IsConfigLine(ThisLine)
    /\ ConfigError(ThisLine, ThisLineNum, today) = NoParseError
    /\ ParseContinue(elements, references, last_account,
                     ConfigSet(config, ThisLine, today))

ParseConfigRaise ==
    /\ ParseCommand
    /\ IsConfigLine(ThisLine)
    /\ ConfigError(ThisLine, ThisLineNum, today) # NoParseError
    /\ ParseRaise(ConfigError(ThisLine, ThisLineNum, today))

\* SECTION: and TITLE:
ParseHeading ==
    /\ ParseCommand
    /\ \/ StartsWith(ThisLine, "SECTION")
             /\ ParseAppend(SectionElement(CurrentReference), 0)
       \/ StartsWith(ThisLine, "TITLE")
             /\ ParseAppend(TitleElement(CurrentReference), 0)

\* ACCOUNT: and ACCOUNTS:
ParseAccount ==
    /\ ParseCommand
    /\ StartsWith(ThisLine, "ACCOUNT") \/ StartsWith(ThisLine, "ACCOUNTS")
    /\ ThisLine.numeric
    /\ ParseAppend(
           AccountElement(CurrentReference, ThisLine.guid, ThisLine.operation,
                          StartsWith(ThisLine, "ACCOUNTS"), None, <<>>, <<>>),
           Len(elements) + 1)

\* Decimal(value_str) in parse_operation raises decimal.InvalidOperation
ParseAccountRaise ==
    /\ ParseCommand
    /\ StartsWith(ThisLine, "ACCOUNT") \/ StartsWith(ThisLine, "ACCOUNTS")
    /\ ~ThisLine.numeric
    /\ ParseRaise(ParseError("InvalidOperation", FALSE, 0, "operand"))

\* FILTER: and REGEX: after an account line
ParseDirective ==
    /\ ParseCommand
    /\ last_account # 0
    /\ \/ /\ StartsWith(ThisLine, "FILTER")
          /\ ParseContinue(
                 [elements EXCEPT ![last_account].filter_guid = ThisLine.guid],
                 references, last_account, config)
       \/ /\ StartsWith(ThisLine, "REGEX")
          /\ ParseContinue(
                 [elements EXCEPT
                     ![last_account].regex_include = @ \o ThisLine.include,
                     ![last_account].regex_exclude = @ \o ThisLine.exclude],
                 references, last_account, config)

\* `if last_account is None: raise ValueError`
ParseOrphanDirective ==
    /\ ParseCommand
    /\ StartsWith(ThisLine, "FILTER") \/ StartsWith(ThisLine, "REGEX")
    /\ last_account = 0
    /\ ParseRaise(ErrorAtLine(ThisLineNum, "orphan directive"))

\* PLACEHOLDER: label | values
ParsePlaceholder ==
    /\ ParseCommand
    /\ StartsWith(ThisLine, "PLACEHOLDER")
    /\ ThisLine.bar
    /\ ThisLine.numeric
    /\ ParseAppend(PlaceholderElement(CurrentReference, ThisLine.values), 0)

\* no bar: ValueError with the line; a value Decimal rejects:
\* decimal.InvalidOperation
ParsePlaceholderRaise ==
    /\ ParseCommand
    /\ StartsWith(ThisLine, "PLACEHOLDER")
    /\ \/ ~ThisLine.bar /\ ParseRaise(ErrorAtLine(ThisLineNum, "placeholder format"))
       \/ /\ ThisLine.bar
          /\ ~ThisLine.numeric
          /\ ParseRaise(ParseError("InvalidOperation", FALSE, 0, "placeholder value"))

\* SUM:
ParseSum ==
    /\ ParseCommand
    /\ StartsWith(ThisLine, "SUM")
    /\ ParseAppend(SumElement(CurrentReference), 0)

\* a check that accepts a reference carried by any line of the file
UndefinedReferencesAnywhere(formula, refs) ==
    RefNumbers(formula) \ {lines[i].tag : i \in 1..Len(lines)}

\* `if ref_num not in references` over the [n] of the formula
UndefinedReferences(formula, refs) == RefNumbers(formula) \ DOMAIN refs

\* CALC: label | formula
ParseCalc ==
    /\ ParseCommand
    /\ StartsWith(ThisLine, "CALC")
    /\ ThisLine.bar
    /\ UndefinedReferences(ThisLine.formula, references) = {}
    /\ ParseAppend(CalcElement(CurrentReference, ThisLine.formula), 0)

ParseCalcRaise ==
    /\ ParseCommand
    /\ StartsWith(ThisLine, "CALC")
    /\ \/ ~ThisLine.bar /\ ParseRaise(ErrorAtLine(ThisLineNum, "calc format"))
       \/ /\ ThisLine.bar
          /\ UndefinedReferences(ThisLine.formula, references) # {}
          /\ ParseRaise(ErrorAtLine(ThisLineNum, "undefined reference"))

\* `if line.upper() == 'BLANK:'` on a line the config branch did not take
IsBlankLine(line) == line.colon /\ UpperText(line.word) = "BLANK" /\ line.text = ""

\* BLANK: (the element is appended as it is built; no reference is set)
ParseBlank ==
    /\ ParseCommand
    /\ ~IsConfigLine(ThisLine)
    /\ IsBlankLine(ThisLine)
    /\ ParseContinue(Append(elements, [BlankElement EXCEPT !.line_num = ThisLineNum]),
                     references, 0, config)

\* the line reaches the end of the loop body
ParseUnrecognized ==
    /\ ParseCommand
    /\ ~IsConfigLine(ThisLine)
    /\ \A word \in CommandWords \ {"BLANK"} : ~StartsWith(ThisLine, word)
    /\ ~IsBlankLine(ThisLine)
    /\ ParseRaise(ErrorAtLine(ThisLineNum, "unrecognized command"))

\* the defaults for the dates
WithDefaults(cfg, now) ==
    [cfg EXCEPT
        !.start_date = IF @ = NoDatePosted THEN ParseDate(AbbrBY, now) ELSE @,
        !.end_date = IF @ = NoDatePosted THEN ParseDate(AbbrEY, now) ELSE @]

ConfigPeriodRanges(cfg) == GetPeriodRanges(cfg.start_date, cfg.end_date, cfg.period)

\* the placeholders whose number of values is not the number of periods
MiscountedPlaceholders(elems, expected_periods) ==
    {i \in 1..Len(elems) :
        elems[i].type = "placeholder" /\ Len(elems[i].values) # expected_periods}

\* the error of the steps after the loop (NoParseError when there is none)
ValidationError(elems, cfg) ==
    LET prs == ConfigPeriodRanges(cfg)
        bad == MiscountedPlaceholders(elems, Len(prs))
    IN  IF prs = <<DateValueError>> THEN ParseError("ValueError", FALSE, 0, "period ranges")
        ELSE IF bad # {}
        THEN ErrorAtLine(elems[CHOOSE i \in bad : \A j \in bad : i <= j].line_num,
                         "placeholder count")
        ELSE NoParseError

\* after the last line: the defaults, the validation, `return`
ParseReturn ==
    /\ parse_pc = "lines"
    /\ line_num = Len(lines)
    /\ ValidationError(elements, WithDefaults(config, today)) = NoParseError
    /\ parse_pc' = "returned"
    /\ config' = WithDefaults(config, today)
    /\ UNCHANGED <<elements, references, last_account, line_num, parse_error,
                   lines, today>>
    /\ UNCHANGED OutsideParse

ParseValidationRaise ==
    /\ parse_pc = "lines"
    /\ line_num = Len(lines)
    /\ ValidationError(elements, WithDefaults(config, today)) # NoParseError
    /\ parse_pc' = "raised"
    /\ parse_error' = ValidationError(elements, WithDefaults(config, today))
    /\ config' = WithDefaults(config, today)
    /\ UNCHANGED <<elements, references, last_account, line_num, lines, today>>
    /\ UNCHANGED OutsideParse

NextParse ==
    \/ ParseEmptyLine
    \/ ParseDuplicateReference
    \/ ParseConfigLine
    \/ ParseConfigRaise
    \/ ParseHeading
    \/ ParseAccount
    \/ ParseAccountRaise
    \/ ParseDirective
    \/ ParseOrphanDirective
    \/ ParsePlaceholder
    \/ ParsePlaceholderRaise
    \/ ParseSum
    \/ ParseCalc
    \/ ParseCalcRaise
    \/ ParseBlank
    \/ ParseUnrecognized
    \/ ParseReturn
    \/ ParseValidationRaise

(***************************************************************************)
(* main, from the return of the parser to the call of                      *)
(* process_report_elements: the period ranges, the file if there is one,   *)
(* the caches                                                              *)
(***************************************************************************)

\* the GnuCash file is given and exists
MainLoadFile ==
    /\ parse_pc = "returned"
    /\ calc_pc = "idle"
    /\ period_ranges' = ConfigPeriodRanges(config)
    /\ tree_loaded' = TRUE
    /\ accounts' = CalcAccounts
    /\ store' \in CalcStoreMenu
    /\ account_guids' = {CalcAccounts[i].guid : i \in 1..Len(CalcAccounts)}
    /\ required_caches' = IdentifyRequiredCaches(elements)
    /\ transaction_cache' = BuildTransactionCache(store', period_ranges', account_guids')
    /\ filtered_caches' = BuildAllFilteredCaches(store', period_ranges', required_caches')
    /\ trn_pos' = Len(store') + 1
    /\ trn_visits' = [i \in 1..Len(store') |-> 1]
    /\ cache_pc' = "done"
    /\ invert_income' = config.invert_income
    /\ stored_values' = EmptyMap
    /\ elem_pos' = 1
    /\ calc_pc' = "loop"
    /\ UNCHANGED <<elements, vars_periods, vars_parse, vars_values, vars_sorter,
                   vars_tools>>

\* no GnuCash file is given, or it does not exist
MainNoFile ==
    /\ parse_pc = "returned"
    /\ calc_pc = "idle"
    /\ period_ranges' = ConfigPeriodRanges(config)
    /\ invert_income' = config.invert_income
    /\ stored_values' = EmptyMap
    /\ elem_pos' = 1
    /\ calc_pc' = "loop"
    /\ UNCHANGED <<elements, accounts, tree_loaded, store, account_guids,
                   required_caches, transaction_cache, filtered_caches, trn_pos,
                   trn_visits, cache_pc, vars_periods, vars_parse, vars_values,
                   vars_sorter, vars_tools>>

NextReport == NextParse \/ MainLoadFile \/ MainNoFile \/ NextCalc

(***************************************************************************)
(* The definition files of the model: a definition the parser accepts,     *)
(* with up to MaxInsert further lines put in at one place                  *)
(***************************************************************************)

Command(tag, word) == Line(tag, word, TRUE, "")

LineStartJan1 == DateLine(NoReference, "START_DATE", DateText(<<2025, 1, 1>>))
LineEndFeb28 == DateLine(NoReference, "END_DATE", DateText(<<2025, 2, 28>>))

\* START_DATE: 2025-01-01 / END_DATE: 2025-02-28 / [1] ACCOUNT: Z + 10 /
\* [2] SUM: / CALC: | [1] + [2]
DefinitionCalc ==
    << LineStartJan1, LineEndFeb28,
       AccountLine(1, "ACCOUNT", "Z", Operation("+", 10, 1), TRUE),
       Command(2, "SUM"),
       CalcLine(NoReference, TRUE, <<RefToken(1), OpToken("+"), RefToken(2)>>) >>

\* START_DATE: / END_DATE: / ACCOUNT: Z / ACCOUNTS: A / FILTER: B /
\* REGEX: "rent" -"tone"
DefinitionFilter ==
    << LineStartJan1, LineEndFeb28,
       AccountLine(NoReference, "ACCOUNT", "Z", NoOperation, TRUE),
       AccountLine(NoReference, "ACCOUNTS", "A", NoOperation, TRUE),
       FilterLine(NoReference, "B"),
       RegexLine(NoReference, <<WordRentLower>>, <<WordTone>>) >>

\* START_DATE: / END_DATE: / [1] PLACEHOLDER: | 500,700 / [3] CALC: | [1] / 2 /
\* CALC: | [3] * 50%
DefinitionPlaceholder ==
    << LineStartJan1, LineEndFeb28,
       PlaceholderLine(1, TRUE, <<500, 700>>, TRUE),
       CalcLine(3, TRUE, <<RefToken(1), OpToken("/"), NumToken(2, 1)>>),
       CalcLine(NoReference, TRUE, <<RefToken(3), OpToken("*"), PctToken(50, 1)>>) >>

\* [0] SECTION: / [2] BLANK: / ACCOUNT: A, with the default dates
DefinitionDefaults ==
    << Command(0, "SECTION"),
       Command(2, "BLANK"),
       AccountLine(NoReference, "ACCOUNT", "A", NoOperation, TRUE) >>

DefinitionMenu ==
    {DefinitionCalc, DefinitionFilter, DefinitionPlaceholder, DefinitionDefaults}

\* the lines that are put in
LineMenu ==
    { EmptyLine,
      Command(2, "SUM"),                                   \* [2] SUM:
      Command(1, "TITLE"),                                 \* [1] TITLE:
      Command(0, "SUM"),                                   \* [0] SUM:
      AccountLine(4, "ACCOUNT", "B", NoOperation, TRUE),   \* [4] ACCOUNT: B
      AccountLine(NoReference, "ACCOUNT", "A", Operation("*", 1, 1), FALSE),
                                                           \* ACCOUNT: A * abc
      FilterLine(NoReference, "Z"),                        \* FILTER: Z
      RegexLine(NoReference, <<WordRent>>, <<>>),          \* REGEX: "Rent"
      PlaceholderLine(NoReference, TRUE, <<100, 200>>, TRUE),   \* PLACEHOLDER: | 1,2
      PlaceholderLine(NoReference, TRUE, <<100>>, TRUE),        \* PLACEHOLDER: | 1
      PlaceholderLine(NoReference, TRUE, <<>>, FALSE),          \* PLACEHOLDER: | 1,x
      PlaceholderLine(NoReference, FALSE, <<>>, TRUE),          \* PLACEHOLDER: p
      CalcLine(NoReference, TRUE, <<RefToken(2), OpToken("+"), NumToken(1, 1)>>),
                                                           \* CALC: | [2] + 1
      CalcLine(4, TRUE, <<RefToken(4), OpToken("*"), NumToken(2, 1)>>),
                                                           \* [4] CALC: | [4] * 2
      CalcLine(NoReference, TRUE, <<RefToken(0), OpToken("+"), NumToken(1, 1)>>),
                                                           \* CALC: | [0] + 1
      CalcLine(NoReference, FALSE, <<>>),                  \* CALC: c
      Command(NoReference, "BLANK"),                       \* BLANK:
      Line(NoReference, "BLANK", TRUE, "x"),               \* BLANK: x
      Line(NoReference, "hello", FALSE, ""),               \* hello
      Line(NoReference, "FOO", TRUE, "bar"),               \* FOO: bar
      Line(NoReference, "sum", TRUE, ""),                  \* sum:
      Line(NoReference, "Period", TRUE, "Q"),              \* Period: Q
      Line(NoReference, "PERIOD", TRUE, "weekly"),         \* PERIOD: weekly
      Line(NoReference, "INVERT_INCOME", TRUE, "No"),      \* INVERT_INCOME: No
      Line(NoReference, "INVERT_INCOME", TRUE, "maybe"),   \* INVERT_INCOME: maybe
      Line(NoReference, "ACCOUNT_NAME", TRUE, "Full_Path"),
      Line(NoReference, "GNUCASH_FILE", TRUE, "book"),
      DateLine(NoReference, "START_DATE", DateText(<<2025, 13, 1>>)),
                                                           \* START_DATE: 2025-13-01
      DateLine(NoReference, "start_date", DateText(<<2025, 1, 31>>)),
                                                           \* start_date: 2025-01-31
      DateLine(NoReference, "END_DATE", AbbrEY) }          \* END_DATE: EY

\* the most lines put into a definition
MaxInsert == 1

InsertMenu == UNION {[1..n -> LineMenu] : n \in 0..MaxInsert}

\* the lines of a definition with a block put in after its first k lines
Insert(definition, k, block) ==
    SubSeq(definition, 1, k) \o block \o SubSeq(definition, k + 1, Len(definition))

TodayMenu == {<<2025, 6, 15>>}

InitParse ==
    /\ \E definition \in DefinitionMenu, block \in InsertMenu :
           \E k \in 0..Len(definition) : lines = Insert(definition, k, block)
    /\ today \in TodayMenu
    /\ line_num = 0
    /\ references = EmptyMap
    /\ last_account = 0
    /\ config = NewConfig
    /\ parse_error = NoParseError
    /\ parse_pc = "lines"

(***************************************************************************)
(* apply_operation on the working series of an Account row (the end of     *)
(* calculate_account_values) and parse_gnucash_value, each called on       *)
(* arguments of its own                                                    *)
(***************************************************************************)

\* result['final']: `if elem.operation: apply_operation(...) else working_values`
FinalValues(working_values, operation) ==
    IF operation.operator # "none" THEN ApplyOperation(working_values, operation)
    ELSE working_values

\* the values of a working series, in cents
OpValueMenu == {0, 25, -25, 35, 100, 10000}

\* the longest working series
MaxValues == 2

OpSeriesMenu == UNION {[1..n -> OpValueMenu] : n \in 0..MaxValues}

\* none, * 0.5, / 2, / 0, / -3, + 0.005, - 10, % 50
OperationMenu ==
    { NoOperation, Operation("*", 1, 2), Operation("/", 2, 1), Operation("/", 0, 1),
      Operation("/", -3, 1), Operation("+", 5, 1000), Operation("-", 10, 1),
      Operation("%", 50, 1) }

\* "10000/100", "1/3", "1/8", "-1/8", "1/-8", "1/0", "0/0", "5", "abc/def",
\* "1/2/3", "1.5/2"
ValueTextMenu ==
    { FracText(10000, 100), FracText(1, 3), FracText(1, 8), FracText(-1, 8),
      FracText(1, -8), FracText(1, 0), FracText(0, 0), PlainText(5), WordsText,
      TwoSlashText, DecimalText(15, 2) }

InitValues ==
    /\ op_values \in OpSeriesMenu
    /\ op_operation \in OperationMenu
    /\ op_final = <<>>
    /\ op_pc = "call"
    /\ gv_str \in ValueTextMenu
    /\ gv_value = 0
    /\ gv_pc = "call"

\* calculate_account_values, from `if elem.operation` to the return
ApplyOperationCall ==
    /\ op_pc = "call"
    /\ op_final' = FinalValues(op_values, op_operation)
    /\ op_pc' = "returned"
    /\ UNCHANGED <<op_values, op_operation, gv_str, gv_value, gv_pc>>
    /\ UNCHANGED OutsideValues

\* parse_gnucash_value returns
ParseValueReturn ==
    /\ gv_pc = "call"
    /\ ~ParseGnucashValueRaises(gv_str)
    /\ gv_value' = ParseGnucashValue(gv_str)
    /\ gv_pc' = "returned"
    /\ UNCHANGED <<op_values, op_operation, op_final, op_pc, gv_str>>
    /\ UNCHANGED OutsideValues

\* parse_gnucash_value raises
ParseValueRaise ==
    /\ gv_pc = "call"
    /\ ParseGnucashValueRaises(gv_str)
    /\ gv_pc' = "raised"
    /\ UNCHANGED <<op_values, op_operation, op_final, op_pc, gv_str, gv_value>>
    /\ UNCHANGED OutsideValues

NextValues == ApplyOperationCall \/ ParseValueReturn \/ ParseValueRaise

(***************************************************************************)
(* The transaction sorter: TransactionSorterGUI._load_file, _on_close and  *)
(* StateManager.release_lock, run by two instances (two processes) on the  *)
(* same directory.  Each call on the file system is a step of its own, so  *)
(* that the steps of the two instances interleave.                         *)
(***************************************************************************)

Instances == {1, 2}

\* the GnuCash files of the directory (each exists)
GnuCashFiles == {"book", "other"}

\* the .LCK files after release_lock: `if self.gui.lock_file and
\* self.gui.lock_file.exists(): self.gui.lock_file.unlink()`
ReleasedFiles(files, lock) ==
    IF lock # None /\ lock \in files THEN files \ {lock} ELSE files

\* self.lock_file after release_lock: set to None in the `finally` of the
\* unlink only
ReleasedLock(files, lock) ==
    IF lock # None /\ lock \in files THEN None ELSE lock

InitSorter ==
    /\ lck_files = {}
    /\ inst_pc = [i \in Instances |-> "ready"]
    /\ inst_target = [i \in Instances |-> None]
    /\ inst_lock = [i \in Instances |-> None]
    /\ inst_file = [i \in Instances |-> None]

\* _load_file: `if lock_file.exists():` showerror and return
LoadFileRefused(i, f) ==
    /\ inst_pc[i] = "ready"
    /\ f \in lck_files
    /\ UNCHANGED vars_sorter
    /\ UNCHANGED OutsideSorter

\* _load_file: the lock file does not exist; status "Loading file..." and
\* self.root.update()
LoadFileCheck(i, f) ==
    /\ inst_pc[i] = "ready"
    /\ f \notin lck_files
    /\ inst_pc' = [inst_pc EXCEPT ![i] = "release"]
    /\ inst_target' = [inst_target EXCEPT ![i] = f]
    /\ UNCHANGED <<lck_files, inst_lock, inst_file>>
    /\ UNCHANGED OutsideSorter

\* _load_file: self.state_manager.release_lock()
LoadFileRelease(i) ==
    /\ inst_pc[i] = "release"
    /\ lck_files' = ReleasedFiles(lck_files, inst_lock[i])
    /\ inst_lock' = [inst_lock EXCEPT ![i] = ReleasedLock(lck_files, inst_lock[i])]
    /\ inst_pc' = [inst_pc EXCEPT ![i] = "touch"]
    /\ UNCHANGED <<inst_target, inst_file>>
    /\ UNCHANGED OutsideSorter

\* _load_file: lock_file.touch(); self.lock_file = lock_file
LoadFileTouch(i) ==
    /\ inst_pc[i] = "touch"
    /\ lck_files' = lck_files \cup {inst_target[i]}
    /\ inst_lock' = [inst_lock EXCEPT ![i] = inst_target[i]]
    /\ inst_pc' = [inst_pc EXCEPT ![i] = "load"]
    /\ UNCHANGED <<inst_target, inst_file>>
    /\ UNCHANGED OutsideSorter

\* _load_file: touch raises (no write permission); showerror and return
LoadFileTouchFails(i) ==
    /\ inst_pc[i] = "touch"
    /\ inst_pc' = [inst_pc EXCEPT ![i] = "ready"]
    /\ UNCHANGED <<lck_files, inst_target, inst_lock, inst_file>>
    /\ UNCHANGED OutsideSorter

\* _load_file: self.gc_file = GnuCashFile(file_path) and the rest of the try
LoadFileLoaded(i) ==
    /\ inst_pc[i] = "load"
    /\ inst_file' = [inst_file EXCEPT ![i] = inst_target[i]]
    /\ inst_pc' = [inst_pc EXCEPT ![i] = "ready"]
    /\ UNCHANGED <<lck_files, inst_target, inst_lock>>
    /\ UNCHANGED OutsideSorter

\* _load_file: loading raises; release_lock() in the except
LoadFileFails(i) ==
    /\ inst_pc[i] = "load"
    /\ lck_files' = ReleasedFiles(lck_files, inst_lock[i])
    /\ inst_lock' = [inst_lock EXCEPT ![i] = ReleasedLock(lck_files, inst_lock[i])]
    /\ inst_pc' = [inst_pc EXCEPT ![i] = "ready"]
    /\ UNCHANGED <<inst_target, inst_file>>
    /\ UNCHANGED OutsideSorter

\* _on_close: release_lock() and self.root.destroy()
OnClose(i) ==
    /\ inst_pc[i] = "ready"
    /\ lck_files' = ReleasedFiles(lck_files, inst_lock[i])
    /\ inst_lock' = [inst_lock EXCEPT ![i] = ReleasedLock(lck_files, inst_lock[i])]
    /\ inst_file' = [inst_file EXCEPT ![i] = None]
    /\ inst_pc' = [inst_pc EXCEPT ![i] = "closed"]
    /\ UNCHANGED inst_target
    /\ UNCHANGED OutsideSorter

NextSorter ==
    \E i \in Instances :
        \/ \E f \in GnuCashFiles : LoadFileRefused(i, f)
        \/ \E f \in GnuCashFiles : LoadFileCheck(i, f)
        \/ LoadFileRelease(i)
        \/ LoadFileTouch(i)
        \/ LoadFileTouchFails(i)
        \/ LoadFileLoaded(i)
        \/ LoadFileFails(i)
        \/ OnClose(i)

(***************************************************************************)
(* The transaction sorter's list (AccountTransactionList) and the handlers *)
(* of its window.  A transaction is [id, original_index, moved]; Python's  *)
(* index i is position i + 1 of the sequence.  The dialogs are modal, so a *)
(* handler runs to its end in one step; the answers of the user and the    *)
(* outcome of the write are its inputs.                                    *)
(***************************************************************************)

SorterTransaction(id, original_index, moved) ==
    [id |-> id, original_index |-> original_index, moved |-> moved]

\* AccountTransactionList.__init__: original_index = idx, moved = False
NewTransactionList(n) == [i \in 1..n |-> SorterTransaction(i, i - 1, FALSE)]

SwapPositions(txns, i, j) ==
    [k \in 1..Len(txns) |-> IF k = i THEN txns[j] ELSE IF k = j THEN txns[i] ELSE txns[k]]

MarkMoved(txns, i) == [txns EXCEPT ![i].moved = TRUE]

MoveUpRefuses(txns, index) == index <= 0 \/ index >= Len(txns)

\* move_transaction_up: swap with index - 1, mark the one now at index - 1
MoveTransactionUp(txns, index) ==
    IF MoveUpRefuses(txns, index) THEN txns
    ELSE MarkMoved(SwapPositions(txns, index + 1, index), index)

MoveDownRefuses(txns, index) == index < 0 \/ index >= Len(txns) - 1

\* move_transaction_down: swap with index + 1, mark the one now at index + 1
MoveTransactionDown(txns, index) ==
    IF MoveDownRefuses(txns, index) THEN txns
    ELSE MarkMoved(SwapPositions(txns, index + 1, index + 2), index + 2)

\* a has_changes that goes by the moved flags
HasChangesByMovedFlag(txns) == \E i \in 1..Len(txns) : txns[i].moved

\* has_changes: some transaction is not at its original index
HasChanges(txns) == \E i \in 1..Len(txns) : txns[i].original_index # i - 1

\* transactions.sort(key=original_index): the keys are distinct, so each
\* transaction goes behind the ones with a smaller key
SortByOriginalIndex(txns) ==
    [i \in 1..Len(txns) |->
        txns[CHOOSE j \in 1..Len(txns) :
                 Cardinality({k \in 1..Len(txns) :
                     txns[k].original_index < txns[j].original_index}) = i - 1]]

\* revert_to_original_order
RevertToOriginalOrder(txns) ==
    [i \in 1..Len(txns) |-> [SortByOriginalIndex(txns)[i] EXCEPT !.moved = FALSE]]

\* _commit_changes after a successful write: moved = False and
\* original_index = transactions.index(txn) for every transaction
MarkCommitted(txns) ==
    [i \in 1..Len(txns) |-> SorterTransaction(txns[i].id, i - 1, FALSE)]

\* the list and the window after a handler, and what check_unsaved_changes
\* returned
Outcome(txns, win, returned) == [txns |-> txns, window |-> win, returned |-> returned]

\* what the user answers and how the write ends, for the dialogs a handler
\* gets to: the Unsaved Changes dialog (Yes / No / Cancel), the confirmation
\* of _commit_changes (Yes / No), write_transaction_order (ok / failed) and
\* the dialog after a successful save (Continue / Exit)
Answers(unsaved, confirm, written, exit) ==
    [unsaved |-> unsaved, confirm |-> confirm, written |-> written, exit |-> exit]

AnswerMenu ==
    { Answers("cancel", "none", "none", FALSE),
      Answers("no", "none", "none", FALSE),
      Answers("yes", "no", "none", FALSE),
      Answers("yes", "yes", "failed", FALSE),
      Answers("yes", "yes", "ok", FALSE),
      Answers("yes", "yes", "ok", TRUE) }

\* _commit_changes: nothing without changes (then self.gc_file is set, the
\* list was loaded from it); askyesno; the write; after a successful write
\* the dialog Continue / Exit, and Exit calls _on_close, which finds no
\* changes and destroys the window
CommitChanges(txns, given) ==
    IF ~HasChanges(txns) THEN Outcome(txns, "open", TRUE)
    ELSE IF given.confirm # "yes" THEN Outcome(txns, "open", TRUE)
    ELSE IF given.written = "ok"
         THEN Outcome(MarkCommitted(txns), IF given.exit THEN "closed" ELSE "open", TRUE)
    ELSE Outcome(txns, "open", TRUE)

\* check_unsaved_changes: True without changes; Cancel: False; Yes: commit and
\* return not has_changes(); No: revert and True
CheckUnsavedChanges(txns, given) ==
    IF ~HasChanges(txns) THEN Outcome(txns, "open", TRUE)
    ELSE IF given.unsaved = "cancel" THEN Outcome(txns, "open", FALSE)
    ELSE IF given.unsaved = "yes"
         THEN [CommitChanges(txns, given) EXCEPT
                  !.returned = ~HasChanges(CommitChanges(txns, given).txns)]
    ELSE Outcome(RevertToOriginalOrder(txns), "open", TRUE)

\* the most transactions of one account and day
MaxTxns == 2

IndexMenu == -1..MaxTxns

ContextMenu == 1..2

\* the handler that ran, whether it found changes, and the answers it was
\* given as far as its dialogs were shown
Dialog(handler, changed, given) ==
    [handler |-> handler, changed |-> changed, given |-> given]

NoAnswers == Answers("none", "none", "none", FALSE)

NoDialog == Dialog("none", FALSE, NoAnswers)

DialogOf(handler, txns, given) ==
    Dialog(handler, HasChanges(txns), IF HasChanges(txns) THEN given ELSE NoAnswers)

InitEditor ==
    /\ \E n \in 1..MaxTxns : txn_list = NewTransactionList(n)
    /\ ed_context = 1
    /\ ed_window = "open"
    /\ ed_dialog = NoDialog

\* _move_up on the selected row / move_transaction_up on any index
MoveUp(index) ==
    /\ ed_window = "open"
    /\ txn_list' = MoveTransactionUp(txn_list, index)
    /\ ed_dialog' = Dialog("move_up", HasChanges(txn_list), NoAnswers)
    /\ UNCHANGED <<ed_context, ed_window>>
    /\ UNCHANGED OutsideEditor

MoveDown(index) ==
    /\ ed_window = "open"
    /\ txn_list' = MoveTransactionDown(txn_list, index)
    /\ ed_dialog' = Dialog("move_down", HasChanges(txn_list), NoAnswers)
    /\ UNCHANGED <<ed_context, ed_window>>
    /\ UNCHANGED OutsideEditor

\* _revert_changes: askyesno, then revert
RevertChanges(confirm) ==
    /\ ed_window = "open"
    /\ txn_list' = IF confirm = "yes" THEN RevertToOriginalOrder(txn_list) ELSE txn_list
    /\ ed_dialog' = Dialog("revert", HasChanges(txn_list),
                           Answers("none", confirm, "none", FALSE))
    /\ UNCHANGED <<ed_context, ed_window>>
    /\ UNCHANGED OutsideEditor

\* the Commit button: _commit_changes
Commit(given) ==
    /\ ed_window = "open"
    /\ given.unsaved = "yes"
    /\ txn_list' = CommitChanges(txn_list, given).txns
    /\ ed_window' = CommitChanges(txn_list, given).window
    /\ ed_dialog' = DialogOf("commit", txn_list, given)
    /\ UNCHANGED ed_context
    /\ UNCHANGED OutsideEditor

\* _browse_file, _select_account, _on_date_changed: check_unsaved_changes,
\* return when it is False; otherwise the selection (cancelled when chosen is
\* the current context) and the load of the list for it
SwitchContext(handler, given, chosen, n) ==
    /\ ed_window = "open"
    /\ LET checked == CheckUnsavedChanges(txn_list, given)
       IN /\ ed_window' = checked.window
          /\ IF checked.returned /\ checked.window = "open" /\ chosen # ed_context
             THEN /\ ed_context' = chosen
                  /\ txn_list' = NewTransactionList(n)
             ELSE /\ ed_context' = ed_context
                  /\ txn_list' = checked.txns
    /\ ed_dialog' = DialogOf(handler, txn_list, given)
    /\ UNCHANGED OutsideEditor

\* _on_close: with changes askyesnocancel; Cancel returns; Yes calls
\* _commit_changes; then, whatever became of the save, release_lock and
\* root.destroy()
OnCloseWindow(given) ==
    /\ ed_window = "open"
    /\ IF HasChanges(txn_list) /\ given.unsaved = "cancel"
       THEN UNCHANGED <<txn_list, ed_window>>
       ELSE /\ txn_list' = IF HasChanges(txn_list) /\ given.unsaved = "yes"
                           THEN CommitChanges(txn_list, given).txns
                           ELSE txn_list
            /\ ed_window' = "closed"
    /\ ed_dialog' = DialogOf("close", txn_list, given)
    /\ UNCHANGED ed_context
    /\ UNCHANGED OutsideEditor

NextEditor ==
    \/ \E index \in IndexMenu : MoveUp(index)
    \/ \E index \in IndexMenu : MoveDown(index)
    \/ \E confirm \in {"yes", "no"} : RevertChanges(confirm)
    \/ \E given \in AnswerMenu : Commit(given)
    \/ \E handler \in {"browse_file", "select_account", "date_changed"},
          given \in AnswerMenu, chosen \in ContextMenu, n \in {1, MaxTxns} :
           SwitchContext(handler, given, chosen, n)
    \/ \E given \in AnswerMenu : OnCloseWindow(given)

(***************************************************************************)
(* write_transaction_order(file_path, txn_list).  The content of the file  *)
(* is the order of the transactions its timestamps give; a backup is a     *)
(* file of its own with a timestamped name.                                *)
(***************************************************************************)

GnuCashFile(exists, gzipped, content) ==
    [exists |-> exists, gzipped |-> gzipped, content |-> content]

NoFile == GnuCashFile(FALSE, FALSE, <<>>)

Backup(name, content) == [name |-> name, content |-> content]

\* a backup an earlier save left behind
OldBackup == Backup("book.gnucash.20250101120000.gnucash", <<>>)

\* _create_backup: shutil.copy2 to file_path.name + timestamp + .gnucash
CreateBackup(file) == Backup("book.gnucash.20250615093000.gnucash", file.content)

WriteResult(success, error) == [success |-> success, error |-> error]

NoResult == WriteResult(FALSE, "not returned")

\* the order the list has on the screen, by transaction id
CurrentOrder(txns) == [i \in 1..Len(txns) |-> txns[i].id]

\* the order the file holds before the write: by original_index
OriginalOrder(txns) == CurrentOrder(SortByOriginalIndex(txns))

\* _find_first_changed_index (0-based); None is -1
FindFirstChangedIndex(txns) ==
    IF HasChanges(txns)
    THEN (CHOOSE i \in 1..Len(txns) :
              /\ txns[i].original_index # i - 1
              /\ \A j \in 1..(i - 1) : txns[j].original_index = j - 1) - 1
    ELSE -1

\* the lists the table can hold: every order of n transactions
RECURSIVE Orders(_)
Orders(ids) ==
    IF ids = {} THEN {<<>>}
    ELSE UNION {{<<x>> \o rest : rest \in Orders(ids \ {x})} : x \in ids}

ReorderedLists ==
    UNION {{[i \in 1..n |-> SorterTransaction(order[i], order[i] - 1, order[i] # i)] :
               order \in Orders(1..n)} : n \in 1..MaxTxns}

InitWrite ==
    /\ txn_list \in ReorderedLists
    /\ \E exists \in BOOLEAN, gzipped \in BOOLEAN :
           wr_file = GnuCashFile(exists, gzipped, OriginalOrder(txn_list))
    /\ wr_backups \in {{}, {OldBackup}}
    /\ wr_valid \in BOOLEAN
    /\ wr_result = NoResult
    /\ wr_pc = "call"

WriteReturn(success, error) ==
    /\ wr_pc' = "returned"
    /\ wr_result' = WriteResult(success, error)

\* if not txn_list.has_changes(): return (False, "No changes to save")
WriteNoChanges ==
    /\ wr_pc = "call"
    /\ ~HasChanges(txn_list)
    /\ WriteReturn(FALSE, "No changes to save")
    /\ UNCHANGED <<txn_list, wr_file, wr_backups, wr_valid>>
    /\ UNCHANGED OutsideWrite

\* if not file_path.exists(): return (False, "File not found")
WriteFileNotFound ==
    /\ wr_pc = "call"
    /\ HasChanges(txn_list)
    /\ ~wr_file.exists
    /\ WriteReturn(FALSE, "File not found")
    /\ UNCHANGED <<txn_list, wr_file, wr_backups, wr_valid>>
    /\ UNCHANGED OutsideWrite

\* steps 1 to 4: read the file, find the first changed index (there is one,
\* the list has changes), compute the timestamps and the modified XML
WriteRead ==
    /\ wr_pc = "call"
    /\ HasChanges(txn_list)
    /\ wr_file.exists
    /\ FindFirstChangedIndex(txn_list) # -1
    /\ wr_pc' = "validate"
    /\ UNCHANGED <<txn_list, wr_file, wr_backups, wr_valid, wr_result>>
    /\ UNCHANGED OutsideWrite

\* an exception while reading (except Exception)
WriteReadFails ==
    /\ wr_pc = "call"
    /\ HasChanges(txn_list)
    /\ wr_file.exists
    /\ WriteReturn(FALSE, "Error writing file")
    /\ UNCHANGED <<txn_list, wr_file, wr_backups, wr_valid>>
    /\ UNCHANGED OutsideWrite

\* step 5: ET.parse of the modified XML raises ParseError
WriteInvalid ==
    /\ wr_pc = "validate"
    /\ ~wr_valid
    /\ WriteReturn(FALSE, "Modified XML is invalid")
    /\ UNCHANGED <<txn_list, wr_file, wr_backups, wr_valid>>
    /\ UNCHANGED OutsideWrite

\* a writer that goes on to step 7 without the copy of step 6
WriteBackupSkipped ==
    /\ wr_pc = "validate"
    /\ wr_valid
    /\ wr_pc' = "write"
    /\ UNCHANGED <<txn_list, wr_file, wr_backups, wr_valid, wr_result>>
    /\ UNCHANGED OutsideWrite

\* step 5 passes and step 6: _create_backup copies the file
WriteBackup ==
    /\ wr_pc = "validate"
    /\ wr_valid
    /\ wr_backups' = wr_backups \cup {CreateBackup(wr_file)}
    /\ wr_pc' = "write"
    /\ UNCHANGED <<txn_list, wr_file, wr_valid, wr_result>>
    /\ UNCHANGED OutsideWrite

\* shutil.copy2 raises
WriteBackupFails ==
    /\ wr_pc = "validate"
    /\ wr_valid
    /\ WriteReturn(FALSE, "Error writing file")
    /\ UNCHANGED <<txn_list, wr_file, wr_backups, wr_valid>>
    /\ UNCHANGED OutsideWrite

\* step 7: the file is opened for writing and the modified XML written
WriteFile ==
    /\ wr_pc = "write"
    /\ wr_file' = [wr_file EXCEPT !.content = CurrentOrder(txn_list)]
    /\ WriteReturn(TRUE, "None")
    /\ UNCHANGED <<txn_list, wr_backups, wr_valid>>
    /\ UNCHANGED OutsideWrite

\* the open or the write raises: the file is as it was or truncated
WriteFileFails ==
    /\ wr_pc = "write"
    /\ \E content \in {wr_file.content, <<>>} :
           wr_file' = [wr_file EXCEPT !.content = content]
    /\ WriteReturn(FALSE, "Error writing file")
    /\ UNCHANGED <<txn_list, wr_backups, wr_valid>>
    /\ UNCHANGED OutsideWrite

NextWrite ==
    \/ WriteNoChanges
    \/ WriteFileNotFound
    \/ WriteRead
    \/ WriteReadFails
    \/ WriteInvalid
    \/ WriteBackup
    \/ WriteBackupFails
    \/ WriteFile
    \/ WriteFileFails

(***************************************************************************)
(* The hidden-status propagator: main from parse_accounts on, and          *)
(* collect_accounts_to_hide.  The accounts are 1..n in document order      *)
(* (the order of the dict accounts); parent 0 is parent_guid None.         *)
(***************************************************************************)

\* the most accounts of a file
MaxAccounts == 4

NoParent == 0

AccountGuids == DOMAIN hid_parent

\* account.children, in the order parse_accounts adds them
RECURSIVE ChildrenFrom(_, _)
ChildrenFrom(guid, i) ==
    IF i > Len(hid_parent) THEN <<>>
    ELSE IF hid_parent[i] = guid THEN <<i>> \o ChildrenFrom(guid, i + 1)
    ELSE ChildrenFrom(guid, i + 1)

Children(guid) == ChildrenFrom(guid, 1)

\* main: the first account of accounts.values() whose parent_guid is None
ParentlessAccounts == {i \in AccountGuids : hid_parent[i] = NoParent}

RootAccount == CHOOSE i \in ParentlessAccounts : \A j \in ParentlessAccounts : i <= j

\* a running call of collect_accounts_to_hide and the position of its loop
Frame(account, child) == [account |-> account, child |-> child]

TopFrame == hid_stack[Len(hid_stack)]

\* the child the loop of the top call is at
CurrentChild == Children(TopFrame.account)[TopFrame.child]

\* the recursive call on the current child
CollectCall ==
    hid_stack' = [hid_stack EXCEPT ![Len(hid_stack)].child = TopFrame.child + 1]
                     \o <<Frame(CurrentChild, 1)>>

\* the files: each account but the first has no parent or an earlier
\* account as its parent
InitHidden ==
    /\ \E n \in 0..MaxAccounts :
           /\ hid_parent \in [1..n -> 0..MaxAccounts]
           /\ \A i \in 1..n : hid_parent[i] < i
           /\ hid_hidden \in [1..n -> BOOLEAN]
    /\ hid_initial = hid_hidden
    /\ accounts_to_hide = {}
    /\ hid_stack = <<>>
    /\ hid_pc = "main"

\* main finds the root account and calls collect_accounts_to_hide on it
MainCollect ==
    /\ hid_pc = "main"
    /\ ParentlessAccounts # {}
    /\ hid_stack' = <<Frame(RootAccount, 1)>>
    /\ hid_pc' = "collect"
    /\ UNCHANGED <<hid_parent, hid_hidden, hid_initial, accounts_to_hide>>
    /\ UNCHANGED OutsideHidden

\* if not root_account: sys.exit(1)
MainNoRoot ==
    /\ hid_pc = "main"
    /\ ParentlessAccounts = {}
    /\ hid_pc' = "exit"
    /\ UNCHANGED <<hid_parent, hid_hidden, hid_initial, accounts_to_hide, hid_stack>>
    /\ UNCHANGED OutsideHidden

\* account.hidden and not child.hidden: accounts_to_hide[child.guid] = path,
\* child.hidden = True, then the call on the child
CollectHide ==
    /\ hid_pc = "collect"
    /\ TopFrame.child <= Len(Children(TopFrame.account))
    /\ hid_hidden[TopFrame.account]
    /\ ~hid_hidden[CurrentChild]
    /\ accounts_to_hide' = accounts_to_hide \cup {CurrentChild}
    /\ hid_hidden' = [hid_hidden EXCEPT ![CurrentChild] = TRUE]
    /\ CollectCall
    /\ UNCHANGED <<hid_parent, hid_initial, hid_pc>>
    /\ UNCHANGED OutsideHidden

\* the child is hidden already, or the account is not hidden: the call only
CollectDescend ==
    /\ hid_pc = "collect"
    /\ TopFrame.child <= Len(Children(TopFrame.account))
    /\ ~(hid_hidden[TopFrame.account] /\ ~hid_hidden[CurrentChild])
    /\ CollectCall
    /\ UNCHANGED <<hid_parent, hid_hidden, hid_initial, accounts_to_hide, hid_pc>>
    /\ UNCHANGED OutsideHidden

\* the loop over the children is done: the call returns
CollectReturn ==
    /\ hid_pc = "collect"
    /\ TopFrame.child > Len(Children(TopFrame.account))
    /\ hid_stack' = SubSeq(hid_stack, 1, Len(hid_stack) - 1)
    /\ hid_pc' = IF Len(hid_stack) = 1 THEN "returned" ELSE "collect"
    /\ UNCHANGED <<hid_parent, hid_hidden, hid_initial, accounts_to_hide>>
    /\ UNCHANGED OutsideHidden

NextHidden ==
    \/ MainCollect
    \/ MainNoRoot
    \/ CollectHide
    \/ CollectDescend
    \/ CollectReturn

(***************************************************************************)
(* strip_comments and process_escape_sequences on one line of a report     *)
(* definition.  A line is a sequence of characters.                        *)
(***************************************************************************)

Backslash == "\\"
Hash == "#"
Quote == "\""
Space == " "

IsEscaped(c) == c \in {Hash, Backslash}

\* a scan that takes the hash of an escape for the start of a comment
RECURSIVE StripScanIgnoringEscapes(_, _, _)
StripScanIgnoringEscapes(chars, i, in_quotes) ==
    IF i > Len(chars) THEN <<>>
    ELSE IF chars[i] = Quote
         THEN <<chars[i]>> \o StripScanIgnoringEscapes(chars, i + 1, ~in_quotes)
    ELSE IF chars[i] = Hash /\ ~in_quotes THEN <<>>
    ELSE <<chars[i]>> \o StripScanIgnoringEscapes(chars, i + 1, in_quotes)

\* the while loop of strip_comments from position i (1-based) on
RECURSIVE StripScan(_, _, _)
StripScan(chars, i, in_quotes) ==
    IF i > Len(chars) THEN <<>>
    ELSE IF chars[i] = Backslash /\ i + 1 <= Len(chars) /\ IsEscaped(chars[i + 1])
         THEN <<chars[i], chars[i + 1]>> \o StripScan(chars, i + 2, in_quotes)
    ELSE IF chars[i] = Quote
         THEN <<chars[i]>> \o StripScan(chars, i + 1, ~in_quotes)
    ELSE IF chars[i] = Hash /\ ~in_quotes THEN <<>>
    ELSE <<chars[i]>> \o StripScan(chars, i + 1, in_quotes)

\* str.strip(): leading and trailing whitespace removed
RECURSIVE StripWhitespace(_)
StripWhitespace(chars) ==
    IF chars = <<>> THEN <<>>
    ELSE IF chars[1] = Space THEN StripWhitespace(Tail(chars))
    ELSE IF chars[Len(chars)] = Space
         THEN StripWhitespace(SubSeq(chars, 1, Len(chars) - 1))
    ELSE chars

StripComments(chars) == StripWhitespace(StripScan(chars, 1, FALSE))

\* the while loop of process_escape_sequences from position i on
RECURSIVE EscapeScan(_, _)
EscapeScan(chars, i) ==
    IF i > Len(chars) THEN <<>>
    ELSE IF chars[i] = Backslash /\ i + 1 <= Len(chars) /\ IsEscaped(chars[i + 1])
         THEN <<chars[i + 1]>> \o EscapeScan(chars, i + 2)
    ELSE <<chars[i]>> \o EscapeScan(chars, i + 1)

ProcessEscapeSequences(chars) == EscapeScan(chars, 1)

\* the longest line
MaxLine == 4

Alphabet == {"a", Space, Hash, Backslash, Quote}

LineTexts == UNION {[1..n -> Alphabet] : n \in 0..MaxLine}

InitText ==
    /\ sc_line \in LineTexts
    /\ sc_stripped = <<>>
    /\ sc_processed = <<>>
    /\ sc_pc = "strip"

\* line = strip_comments(line)
StripCommentsCall ==
    /\ sc_pc = "strip"
    /\ sc_stripped' = StripComments(sc_line)
    /\ sc_pc' = "escape"
    /\ UNCHANGED <<sc_line, sc_processed>>
    /\ UNCHANGED OutsideText

\* line = process_escape_sequences(line)
ProcessEscapeCall ==
    /\ sc_pc = "escape"
    /\ sc_processed' = ProcessEscapeSequences(sc_stripped)
    /\ sc_pc' = "returned"
    /\ UNCHANGED <<sc_line, sc_stripped>>
    /\ UNCHANGED OutsideText

NextText == StripCommentsCall \/ ProcessEscapeCall

\* the variables of a component that is not running
IdlePeriods ==
    /\ start_date = <<2025, 1, 1>>
    /\ end_date = <<2025, 1, 1>>
    /\ period_type = "m"
    /\ current_date = <<2025, 1, 1>>
    /\ ranges = <<>>
    /\ pr_pc = "idle"

IdleCache ==
    /\ store = <<>>
    /\ period_ranges = <<>>
    /\ account_guids = {}
    /\ required_caches = {}
    /\ transaction_cache = EmptyMap
    /\ filtered_caches = EmptyMap
    /\ trn_pos = 1
    /\ trn_visits = <<>>
    /\ cache_pc = "idle"

IdleCalc ==
    /\ elements = <<>>
    /\ accounts = <<>>
    /\ tree_loaded = FALSE
    /\ invert_income = TRUE
    /\ stored_values = EmptyMap
    /\ elem_pos = 1
    /\ calc_pc = "idle"

IdleParse ==
    /\ lines = <<>>
    /\ today = <<2025, 1, 1>>
    /\ line_num = 0
    /\ references = EmptyMap
    /\ last_account = 0
    /\ config = NewConfig
    /\ parse_error = NoParseError
    /\ parse_pc = "idle"

IdleValues ==
    /\ op_values = <<>>
    /\ op_operation = NoOperation
    /\ op_final = <<>>
    /\ op_pc = "idle"
    /\ gv_str = PlainText(0)
    /\ gv_value = 0
    /\ gv_pc = "idle"

IdleSorter ==
    /\ lck_files = {}
    /\ inst_pc = [i \in Instances |-> "idle"]
    /\ inst_target = [i \in Instances |-> None]
    /\ inst_lock = [i \in Instances |-> None]
    /\ inst_file = [i \in Instances |-> None]

IdleEditor ==
    /\ txn_list = <<>>
    /\ ed_context = 0
    /\ ed_window = "closed"
    /\ ed_dialog = NoDialog

IdleWrite ==
    /\ wr_pc = "idle"
    /\ wr_file = NoFile
    /\ wr_backups = {}
    /\ wr_valid = TRUE
    /\ wr_result = NoResult

IdleHidden ==
    /\ hid_parent = <<>>
    /\ hid_hidden = <<>>
    /\ hid_initial = <<>>
    /\ accounts_to_hide = {}
    /\ hid_stack = <<>>
    /\ hid_pc = "idle"

IdleText ==
    /\ sc_line = <<>>
    /\ sc_stripped = <<>>
    /\ sc_processed = <<>>
    /\ sc_pc = "idle"

IdleTools == IdleEditor /\ IdleWrite /\ IdleHidden /\ IdleText

IdleReport ==
    IdlePeriods /\ IdleCache /\ IdleCalc /\ IdleParse /\ IdleValues /\ IdleSorter

InitSpecPeriods ==
    InitPeriods /\ IdleCache /\ IdleCalc /\ IdleParse /\ IdleValues /\ IdleSorter
    /\ IdleTools

SpecPeriods == InitSpecPeriods /\ [][NextPeriods]_vars

InitSpecCache ==
    InitCache /\ IdlePeriods /\ IdleCalc /\ IdleParse /\ IdleValues /\ IdleSorter
    /\ IdleTools

SpecCache == InitSpecCache /\ [][NextCache]_vars

InitSpecCalc ==
    InitCalc /\ IdlePeriods /\ IdleParse /\ IdleValues /\ IdleSorter /\ IdleTools

SpecCalc == InitSpecCalc /\ [][NextCalc]_vars

\* a run of main: the parser, then the caches and the calculation
InitSpecReport ==
    InitParse /\ IdlePeriods /\ IdleCache /\ IdleCalc /\ IdleValues /\ IdleSorter
    /\ IdleTools

SpecReport == InitSpecReport /\ [][NextReport]_vars

InitSpecValues ==
    InitValues /\ IdlePeriods /\ IdleCache /\ IdleCalc /\ IdleParse /\ IdleSorter
    /\ IdleTools

SpecValues == InitSpecValues /\ [][NextValues]_vars

InitSpecSorter ==
    InitSorter /\ IdlePeriods /\ IdleCache /\ IdleCalc /\ IdleParse /\ IdleValues
    /\ IdleTools

SpecSorter == InitSpecSorter /\ [][NextSorter]_vars

InitSpecEditor == InitEditor /\ IdleReport /\ IdleWrite /\ IdleHidden /\ IdleText

SpecEditor == InitSpecEditor /\ [][NextEditor]_vars

InitSpecWrite ==
    /\ InitWrite
    /\ ed_context = 0 /\ ed_window = "closed" /\ ed_dialog = NoDialog
    /\ IdleReport /\ IdleHidden /\ IdleText

SpecWrite == InitSpecWrite /\ [][NextWrite]_vars

InitSpecHidden == InitHidden /\ IdleReport /\ IdleEditor /\ IdleWrite /\ IdleText

SpecHidden == InitSpecHidden /\ [][NextHidden]_vars

InitSpecText == InitText /\ IdleReport /\ IdleEditor /\ IdleWrite /\ IdleHidden

SpecText == InitSpecText /\ [][NextText]_vars

(***************************************************************************)
(* What the totals of a cache are specified to be                          *)
(***************************************************************************)

RECURSIVE SeqSum(_)
SeqSum(s) == IF Len(s) = 0 THEN 0 ELSE Head(s) + SeqSum(Tail(s))

\* the transaction has a posted date inside period p (0-based)
DatedInPeriod(trn, periods, p) ==
    /\ trn.date # NoDatePosted
    /\ DateLE(periods[p + 1][1], trn.date)
    /\ DateLE(trn.date, periods[p + 1][2])

\* the values of the transaction's splits on account g, added up
SplitValuesOn(trn, g) ==
    SeqSum([k \in 1..Len(trn.splits) |->
               IF trn.splits[k].account = g /\ trn.splits[k].value.form # "absent"
               THEN ParseGnucashValue(trn.splits[k].value) ELSE 0])

ExpectedBaseTotal(g, p) ==
    SeqSum([i \in 1..Len(store) |->
               IF DatedInPeriod(store[i], period_ranges, p)
               THEN SplitValuesOn(store[i], g) ELSE 0])

\* description + ' ' + notes, an element without text being the empty text
DescriptionAndNotes(trn) == trn.description.text \o <<" ">> \o trn.notes.text

\* conditions (a) and (b) of the filtered totals
QualifiesFor(trn, key) ==
    /\ Truthy(key.filter_guid) =>
           \E k \in 1..Len(trn.splits) : trn.splits[k].account = key.filter_guid
    /\ \A k \in 1..Len(key.regex_include) :
           ReSearchIgnoreCase(key.regex_include[k], DescriptionAndNotes(trn))
    /\ \A k \in 1..Len(key.regex_exclude) :
           ~ReSearchIgnoreCase(key.regex_exclude[k], DescriptionAndNotes(trn))

ExpectedFilteredTotal(key, p) ==
    SeqSum([i \in 1..Len(store) |->
               IF DatedInPeriod(store[i], period_ranges, p) /\ QualifiesFor(store[i], key)
               THEN SplitValuesOn(store[i], key.account_guid) ELSE 0])

PeriodIndexes == 0..(Len(period_ranges) - 1)

(***************************************************************************)
(* C1: get_period_ranges returns periods that tile [start, end] exactly:   *)
(* the call returns, the first period starts at start_date, the last ends  *)
(* at end_date, and each period's end plus one day is the next period's    *)
(* start.                                                                  *)
(***************************************************************************)
TilesExactly(rs, start, end) ==
    /\ Len(rs) >= 1
    /\ rs[1][1] = start
    /\ rs[Len(rs)][2] = end
    /\ \A i \in 1..Len(rs) - 1 : NextDay(rs[i][2]) = rs[i + 1][1]
    /\ \A i \in 1..Len(rs) : DateLE(rs[i][1], rs[i][2])

C1_PeriodsTileRange ==
    pr_pc # "loop" =>
        pr_pc = "returned" /\ TilesExactly(ranges, start_date, end_date)

(***************************************************************************)
(* C2: build_all_filtered_caches iterates over the transaction store       *)
(* exactly once whatever the number N >= 1 of requested keys: no           *)
(* transaction is ever visited twice, and when the builder returns every   *)
(* transaction has been visited once.                                      *)
(***************************************************************************)
C2_SinglePass ==
    required_caches # {} =>
        /\ \A i \in 1..Len(store) : trn_visits[i] <= 1
        /\ cache_pc = "done" => \A i \in 1..Len(store) : trn_visits[i] = 1

C2_Witness ==
    /\ cache_pc = "done"
    /\ Cardinality(required_caches) >= 2
    /\ Len(store) >= 2
    /\ \A i \in 1..Len(store) : trn_visits[i] = 1

(***************************************************************************)
(* C3: for every requested key and period, the filtered-cache total is the *)
(* sum of the values of the splits on the key's target account over the    *)
(* transactions dated inside the period that contain a split on the filter *)
(* account (when a filter is set) and whose description + ' ' + notes      *)
(* matches every include pattern and no exclude pattern.                   *)
(***************************************************************************)
C3_FilteredTotals ==
    cache_pc = "done" =>
        \A key \in required_caches : \A p \in PeriodIndexes :
            MapGet(filtered_caches[key], p, 0) = ExpectedFilteredTotal(key, p)

(***************************************************************************)
(* C4: for every account of account_ids and every period, the base cache   *)
(* holds the sum of the values of the account's splits over the            *)
(* transactions posted inside the period (a period without split reads as  *)
(* zero); undated and out-of-range transactions add to no total, and no    *)
(* other account or period gets an entry.                                  *)
(***************************************************************************)
C4_BaseCacheTotals ==
    cache_pc \in {"filtered", "done"} =>
        /\ \A g \in account_guids : \A p \in PeriodIndexes :
               MapGet(MapGet(transaction_cache, g, EmptyMap), p, 0)
                   = ExpectedBaseTotal(g, p)
        /\ DOMAIN transaction_cache \subseteq account_guids
        /\ \A g \in DOMAIN transaction_cache :
               DOMAIN transaction_cache[g] \subseteq PeriodIndexes

C4_Witness ==
    /\ cache_pc = "done"
    /\ \E i \in 1..Len(store) : store[i].date = NoDatePosted
    /\ \E i \in 1..Len(store) : store[i].date = period_ranges[1][1]
    /\ MapGet(MapGet(transaction_cache, "A", EmptyMap), 0, 0) # 0

(***************************************************************************)
(* Support for the claims about the calculators                            *)
(***************************************************************************)

\* the loop has handled the element at position p (its line is p)
Processed(p) == calc_pc \in {"loop", "returned"} /\ elem_pos > p

Positions == 1..Len(elements)

Periods == 1..Len(period_ranges)

IsBoundary(e) == e.type \in {"title", "sum", "calc"}

\* the position of the nearest Title, Sum or Calc before p, 0 if there is none
ScopeStart(p) ==
    IF \E j \in 1..(p - 1) : IsBoundary(elements[j])
    THEN CHOOSE j \in 1..(p - 1) :
            /\ IsBoundary(elements[j])
            /\ \A m \in (j + 1)..(p - 1) : ~IsBoundary(elements[m])
    ELSE 0

\* the series a row shows: the final of an Account row, the literal values
\* of a Placeholder row, the stored values of a Sum or Calc row
RowSeries(j) ==
    IF elements[j].type = "account" THEN stored_values[j].final
    ELSE IF elements[j].type = "placeholder" THEN elements[j].values
    ELSE stored_values[j]

\* what a row adds to a SUM in period k
RowValue(j, k) ==
    IF elements[j].type \in {"account", "placeholder"} THEN RowSeries(j)[k] ELSE 0

\* the rows lo..hi added up for period k
RowsTotal(lo, hi, k) == SeqSum([n \in 1..(hi - lo + 1) |-> RowValue(lo + n - 1, k)])

(***************************************************************************)
(* C5: every SUM row holds, in every period, the sum of the finals of the  *)
(* Account rows and the literal values of the Placeholder rows between it  *)
(* and the nearest preceding Title, Sum or Calc row (or the start of the   *)
(* list), and of nothing else.                                             *)
(***************************************************************************)
C5_SumScope ==
    \A p \in Positions :
        (elements[p].type = "sum" /\ Processed(p)) =>
            \A k \in Periods :
                stored_values[p][k] = RowsTotal(ScopeStart(p) + 1, p - 1, k)

\* a SUM behind a Calc row that has a Placeholder row before it, with a
\* Section, a Blank and two Account rows in its scope
C5_Witness ==
    /\ calc_pc = "returned"
    /\ \E p \in Positions :
          /\ elements[p].type = "sum"
          /\ ScopeStart(p) >= 2
          /\ elements[ScopeStart(p)].type = "calc"
          /\ \E j \in 1..(ScopeStart(p) - 1) : elements[j].type = "placeholder"
          /\ {elements[j].type : j \in (ScopeStart(p) + 1)..(p - 1)} =
                {"section", "blank", "account"}
          /\ stored_values[p] = <<3000, 3000>>

(***************************************************************************)
(* C6: a SUM row preceded, scanning backward, by two Account rows with     *)
(* finals 10.00 and 20.00 in every period, a BLANK and a SECTION.          *)
(***************************************************************************)
SumAfterSection(p) ==
    /\ p >= 5
    /\ elements[p].type = "sum"
    /\ Processed(p)
    /\ elements[p - 1].type = "account"
    /\ elements[p - 2].type = "account"
    /\ elements[p - 3].type = "blank"
    /\ elements[p - 4].type = "section"
    /\ \A k \in Periods :
          {stored_values[p - 1].final[k], stored_values[p - 2].final[k]} = {1000, 2000}

\* C6 as stated: such a SUM is 30.00 in every period whatever precedes the
\* SECTION
C6_SumIgnoresRowsBeforeSection ==
    \A p \in Positions :
        SumAfterSection(p) => \A k \in Periods : stored_values[p][k] = 3000

\* C6, amended: such a SUM is 30.00 plus the Account and Placeholder rows
\* between the nearest preceding Title, Sum or Calc row and the SECTION; it
\* is 30.00 when such a row, or nothing, directly precedes the SECTION, and
\* rows before that Title, Sum or Calc row never change it
C6_SumCountsRowsUpToBoundary ==
    \A p \in Positions :
        SumAfterSection(p) =>
            \A k \in Periods :
                /\ stored_values[p][k] = 3000 + RowsTotal(ScopeStart(p - 4) + 1, p - 5, k)
                /\ (p = 5 \/ IsBoundary(elements[p - 5])) => stored_values[p][k] = 3000

\* a Placeholder row directly before the SECTION is part of the SUM
C6_Witness ==
    /\ calc_pc = "returned"
    /\ \E p \in Positions :
          /\ SumAfterSection(p)
          /\ p >= 6
          /\ elements[p - 5].type = "placeholder"
          /\ stored_values[p] = <<3500, 3700>>

(***************************************************************************)
(* Support for the claims about CALC rows: the value of a formula made of  *)
(* two operands and one operator, by plain arithmetic on the operands      *)
(***************************************************************************)

IsOperand(tok) == tok.t \in {"ref", "num", "pct"}

\* the position of the row that carries the reference [n]
RefRow(n) == CHOOSE j \in Positions : elements[j].reference = n

\* an operand in period k as the fraction OperandNum / OperandDen
OperandNum(tok, k) == IF tok.t = "ref" THEN RowSeries(RefRow(tok.n))[k] ELSE tok.num

OperandDen(tok) ==
    IF tok.t = "ref" THEN 100 ELSE IF tok.t = "pct" THEN tok.den * 100 ELSE tok.den

IsBinary(formula) ==
    /\ Len(formula) = 3
    /\ IsOperand(formula[1])
    /\ formula[2].t \in {"+", "-", "*", "/"}
    /\ IsOperand(formula[3])

\* an operator with no operand behind it
IsMalformed(formula) ==
    /\ Len(formula) = 2
    /\ IsOperand(formula[1])
    /\ formula[2].t \in {"+", "-", "*", "/"}

\* the right operand of a division is zero in period k
DividesByZero(formula, k) ==
    IsBinary(formula) /\ formula[2].t = "/" /\ OperandNum(formula[3], k) = 0

\* the value of a binary formula in period k, in cents, rounded to the cent
BinaryValue(formula, k) ==
    LET an == OperandNum(formula[1], k)
        ad == OperandDen(formula[1])
        bn == OperandNum(formula[3], k)
        bd == OperandDen(formula[3])
    IN  CASE formula[2].t = "+" -> RoundHalfEven((an * bd + bn * ad) * 100, ad * bd)
          [] formula[2].t = "-" -> RoundHalfEven((an * bd - bn * ad) * 100, ad * bd)
          [] formula[2].t = "*" -> RoundHalfEven(an * bn * 100, ad * bd)
          [] formula[2].t = "/" ->
                 IF bn > 0 THEN RoundHalfEven(an * bd * 100, ad * bn)
                 ELSE RoundHalfEven(-(an * bd * 100), -(ad * bn))

RefersToFailingRow(p) ==
    /\ elements[p].type = "calc"
    /\ Processed(p)
    /\ Len(elements[p].formula) = 3
    /\ elements[p].formula[1].t = "ref"
    /\ elements[p].formula[2].t = "-"
    /\ elements[p].formula[3].t = "ref"
    /\ elements[RefRow(elements[p].formula[3].n)].type = "calc"
    /\ DividesByZero(elements[RefRow(elements[p].formula[3].n)].formula, 1)

\* the periods after period 0 are as without a failure: [a] minus the value
\* of the formula of [b]
OtherPeriodsUnaffected(p) ==
    LET a == RefRow(elements[p].formula[1].n)
        b == RefRow(elements[p].formula[3].n)
    IN  \A k \in Periods \ {1} :
            ~DividesByZero(elements[b].formula, k) =>
                stored_values[p][k] = RowSeries(a)[k] - BinaryValue(elements[b].formula, k)

\* C8 as stated: the row is 0.00 in period 0 and unaffected in the others
C8_DependentRowIsZero ==
    \A p \in Positions :
        RefersToFailingRow(p) =>
            /\ stored_values[p][1] = 0
            /\ OtherPeriodsUnaffected(p)

\* C8, amended: the failing row reads as 0.00 in period 0, so the row is the
\* period-0 value of [a] minus 0.00 there (0.00 only if [a] is 0.00), and
\* unaffected in the other periods
C8_DependentRowReadsZero ==
    \A p \in Positions :
        RefersToFailingRow(p) =>
            /\ stored_values[RefRow(elements[p].formula[3].n)][1] = 0
            /\ stored_values[p][1] = RowSeries(RefRow(elements[p].formula[1].n))[1]
            /\ OtherPeriodsUnaffected(p)

\* [1] = 100.00 and 50.00, [2] failing in period 0 and 10.00 in period 1
C8_Witness ==
    /\ calc_pc = "returned"
    /\ \E p \in Positions :
          /\ RefersToFailingRow(p)
          /\ RowSeries(RefRow(elements[p].formula[1].n)) = <<10000, 5000>>
          /\ RowSeries(RefRow(elements[p].formula[3].n)) = <<0, 1000>>
          /\ stored_values[p] = <<10000, 4000>>

(***************************************************************************)
(* Support for the claims about Account rows                               *)
(***************************************************************************)

\* account a is g or has g among its ancestors, looking up to n levels up
RECURSIVE WithinSubtree(_, _, _)
WithinSubtree(a, g, n) ==
    \/ a = g
    \/ /\ n > 0
       /\ InAccounts(a, accounts)
       /\ WithinSubtree(AccountOf(a, accounts).parent_guid, g, n - 1)

\* g and its transitive descendants
Subtree(g) ==
    {accounts[i].guid : i \in {j \in 1..Len(accounts) :
                                  WithinSubtree(accounts[j].guid, g, Len(accounts))}}

\* the total of account g in period k under the FILTER and REGEX of the row
\* (the base-cache total if the row has neither)
AccountTotalUnder(elem, g, k) ==
    IF NeedsFilteredCache(elem)
    THEN LET key == CacheKey(g, elem.filter_guid, elem.regex_include, elem.regex_exclude)
         IN  MapGet(BuildAllFilteredCaches(store, period_ranges, {key})[key], k - 1, 0)
    ELSE MapGet(MapGet(transaction_cache, g, EmptyMap), k - 1, 0)

\* the series of the row before its operation
WorkingSeries(p) ==
    IF stored_values[p].regex_filtered # NoSeries THEN stored_values[p].regex_filtered
    ELSE IF stored_values[p].filtered # NoSeries THEN stored_values[p].filtered
    ELSE stored_values[p].raw

IsRecursiveRow(p) ==
    /\ elements[p].type = "account"
    /\ Processed(p)
    /\ FileLoaded(accounts, tree_loaded)
    /\ InAccounts(elements[p].guid, accounts)
    /\ elements[p].recursive

(***************************************************************************)
(* C9: the total of every ACCOUNTS: row, with or without a FILTER or       *)
(* REGEX, is in every period the sum over the target account and all its   *)
(* transitive descendants, each counted once (with the sign of the row).   *)
(***************************************************************************)
C9_RecursiveIncludesDescendants ==
    \A p \in Positions :
        IsRecursiveRow(p) =>
            LET guids == GetDescendantGuids(elements[p].guid, accounts)
                sign == IF InvertsIncome(elements[p], accounts, invert_income)
                        THEN -1 ELSE 1
            IN  /\ {guids[n] : n \in 1..Len(guids)} = Subtree(elements[p].guid)
                /\ Len(guids) = Cardinality(Subtree(elements[p].guid))
                /\ \A k \in Periods :
                      WorkingSeries(p)[k] =
                          sign * SeqSum([n \in 1..Len(guids) |->
                                            AccountTotalUnder(elements[p], guids[n], k)])

(***************************************************************************)
(* C10: an Account row whose account is not in the registry gets all-zero  *)
(* raw and final series and valid = false; it adds zero to every SUM whose *)
(* scope includes it; and every other row has the value it has when the    *)
(* invalid row is taken out of the list.  The last part is read over the   *)
(* definitions that stay valid without the row, those in which no CALC     *)
(* row refers to it.                                                       *)
(***************************************************************************)
IsInvalidRow(p) ==
    /\ elements[p].type = "account"
    /\ FileLoaded(accounts, tree_loaded)
    /\ ~InAccounts(elements[p].guid, accounts)

Unreferenced(p) ==
    \A q \in Positions :
        elements[q].type = "calc" => elements[p].reference \notin RefNumbers(elements[q].formula)

\* the list without the row at position p
Without(p) == SubSeq(elements, 1, p - 1) \o SubSeq(elements, p + 1, Len(elements))

\* a run over the list without the row at position p, on the caches of
\* that list
StoredWithout(p) ==
    ProcessReportElements(Without(p), accounts, tree_loaded, invert_income,
        transaction_cache,
        BuildAllFilteredCaches(store, period_ranges, IdentifyRequiredCaches(Without(p))),
        Len(period_ranges))

\* the rows lo..hi that are not invalid, added up for period k
ValidRowsTotal(lo, hi, k) ==
    SeqSum([n \in 1..(hi - lo + 1) |->
               IF IsInvalidRow(lo + n - 1) THEN 0 ELSE RowValue(lo + n - 1, k)])

C10_InvalidRowIsZero ==
    /\ \A p \in Positions :
          (IsInvalidRow(p) /\ Processed(p)) =>
              /\ stored_values[p].valid = FALSE
              /\ stored_values[p].raw = ZeroValues(Len(period_ranges))
              /\ stored_values[p].final = ZeroValues(Len(period_ranges))
    /\ \A p \in Positions :
          (elements[p].type = "sum" /\ Processed(p)) =>
              \A k \in Periods :
                  stored_values[p][k] = ValidRowsTotal(ScopeStart(p) + 1, p - 1, k)
    /\ calc_pc = "returned" =>
          \A p \in Positions :
              (IsInvalidRow(p) /\ Unreferenced(p)) =>
                  /\ DOMAIN StoredWithout(p) = DOMAIN stored_values \ {p}
                  /\ \A q \in DOMAIN StoredWithout(p) : StoredWithout(p)[q] = stored_values[q]

\* an invalid row that carries an operation, in the scope of a SUM that is
\* not zero, in a list with valid Account rows and a CALC row
C10_Witness ==
    /\ calc_pc = "returned"
    /\ \E p \in Positions, q \in Positions :
          /\ IsInvalidRow(p)
          /\ Unreferenced(p)
          /\ elements[p].operation # NoOperation
          /\ elements[q].type = "sum"
          /\ ScopeStart(q) < p
          /\ p < q
          /\ stored_values[q][1] # 0
    /\ \E p \in Positions : elements[p].type = "calc" /\ stored_values[p][1] # 0

(***************************************************************************)
(* Claims about the definition parser, checked on runs of main             *)
(***************************************************************************)

\* the position in elements of the element built from a line
ElementsOfLine(num) == {i \in 1..Len(elements) : elements[i].line_num = num}

\* the rows before position i that carry the reference n
EarlierRows(i, n) == {j \in 1..(i - 1) : elements[j].reference = n}

\* C11: every [n] of the formula of an accepted CALC line is the reference
\* of a row built from an earlier line (never of a later row, of the CALC
\* row itself, or of no row); so when process_report_elements comes to a
\* CALC row, every Account, Sum or Calc row its formula refers to has its
\* series in stored_values, and the lookup never raises.
C11_ReferencesDefinedEarlier ==
    /\ \A i \in 1..Len(elements) :
          elements[i].type = "calc" =>
              \A n \in RefNumbers(elements[i].formula) :
                  /\ EarlierRows(i, n) # {}
                  /\ \A j \in i..Len(elements) : elements[j].reference # n
    /\ calc_pc # "raised"
    /\ (calc_pc = "loop" /\ elem_pos <= Len(elements) /\ CurrentElement.type = "calc") =>
          \A n \in RefNumbers(CurrentElement.formula) :
              /\ HasRefElement(elements, n)
              /\ RefElement(elements, n).type \in {"account", "sum", "calc"} =>
                     RefElement(elements, n).line_num \in DOMAIN stored_values

\* the loop is at a CALC row whose formula refers to an Account row and to a
\* Sum row, in a file that went through the parser
C11_Witness ==
    /\ parse_pc = "returned"
    /\ calc_pc = "loop"
    /\ elem_pos <= Len(elements)
    /\ CurrentElement.type = "calc"
    /\ \E n \in RefNumbers(CurrentElement.formula) :
          RefElement(elements, n).type = "account"
    /\ \E n \in RefNumbers(CurrentElement.formula) :
          RefElement(elements, n).type = "sum"

\* the lines read so far that carry the tag of an earlier line
RepeatedTagLines ==
    {j \in 1..line_num :
        /\ lines[j].tag # NoReference
        /\ \E i \in 1..(j - 1) : lines[i].tag = lines[j].tag}

\* C12: a line that starts with the [n] tag of an earlier line makes the
\* parser fail with the duplicate-reference error carrying the number of
\* that second line, for every n that is read as a tag and whatever the two
\* lines carry behind the tag.
C12_DuplicateReferenceRejected ==
    \A j \in RepeatedTagLines :
        /\ parse_pc = "raised"
        /\ parse_error = ErrorAtLine(j, "duplicate reference")

\* the step reads a FILTER: or REGEX: line
ReadsDirective ==
    /\ ParseCommand
    /\ StartsWith(ThisLine, "FILTER") \/ StartsWith(ThisLine, "REGEX")
    /\ line_num' = ThisLineNum

\* the element at position i after the step is the one before it, but for
\* what the directive of the line sets
ModifiedByDirective(i) ==
    /\ StartsWith(ThisLine, "FILTER") =>
          elements'[i] = [elements[i] EXCEPT !.filter_guid = ThisLine.guid]
    /\ StartsWith(ThisLine, "REGEX") =>
          elements'[i] = [elements[i] EXCEPT
                             !.regex_include = @ \o ThisLine.include,
                             !.regex_exclude = @ \o ThisLine.exclude]

\* the most recently added element is an ACCOUNT: or ACCOUNTS: element
LastIsAccount == Len(elements) > 0 /\ elements[Len(elements)].type = "account"

\* C13: a FILTER: or REGEX: line is accepted exactly when the most recently
\* added element is an ACCOUNT: / ACCOUNTS: element, and then it modifies
\* that element and no other; at the start of the file and after any other
\* element the parser fails with the orphan-directive error of that line.
C13_DirectiveFollowsAccount ==
    [][ReadsDirective =>
          IF LastIsAccount
          THEN /\ parse_pc' = "lines"
               /\ Len(elements') = Len(elements)
               /\ ModifiedByDirective(Len(elements))
               /\ \A i \in 1..(Len(elements) - 1) : elements'[i] = elements[i]
          ELSE /\ parse_pc' = "raised"
               /\ parse_error' = ErrorAtLine(ThisLineNum, "orphan directive")
               /\ elements' = elements]_vars

\* a FILTER: and a REGEX: line were accepted after the second of two account
\* lines: the second element carries them, the first does not
C13_Witness ==
    /\ parse_pc = "lines"
    /\ line_num > 0
    /\ StartsWith(lines[line_num], "REGEX")
    /\ Len(elements) >= 2
    /\ elements[Len(elements) - 1].type = "account"
    /\ elements[Len(elements) - 1].filter_guid = None
    /\ elements[Len(elements) - 1].regex_include = <<>>
    /\ elements[Len(elements)].filter_guid # None
    /\ elements[Len(elements)].regex_include # <<>>

\* the keys of the configuration branch
ConfigKeys ==
    {"START_DATE", "END_DATE", "PERIOD", "ACCOUNT_NAME", "GNUCASH_FILE", "CSV_FILE",
     "INVERT_INCOME"}

\* a configuration line with a recognized key, in any case of letters
HasRecognizedKey(line) == line.colon /\ UpperText(line.word) \in ConfigKeys

\* a line in the form of a command, in any case of letters
HasCommandForm(line) ==
    /\ line.colon
    /\ UpperText(line.word) \in CommandWords
    /\ UpperText(line.word) = "BLANK" => line.text = ""

\* the lines read so far that are not empty and are neither
UnrecognizedLines ==
    {j \in 1..line_num :
        lines[j] # EmptyLine /\ ~HasRecognizedKey(lines[j]) /\ ~HasCommandForm(lines[j])}

\* C14: every line that is not empty and is neither a configuration line
\* with a recognized key nor a command makes the parser fail with the
\* unrecognized-command error; none is accepted or skipped.
C14_UnrecognizedLineRejected ==
    \A j \in UnrecognizedLines :
        /\ parse_pc = "raised"
        /\ parse_error = ErrorAtLine(j, "unrecognized command")

\* the fatal errors a definition line causes
LineErrors ==
    {"date", "period", "account name", "invert income", "operand", "placeholder value",
     "orphan directive", "duplicate reference", "undefined reference",
     "unrecognized command", "placeholder count"}

\* the line an error comes from: the miscounted PLACEHOLDER line, else the
\* line the loop was at
OriginatingLine ==
    IF parse_error.what = "placeholder count"
    THEN elements[CHOOSE i \in MiscountedPlaceholders(elements, Len(ConfigPeriodRanges(config))) :
                     \A j \in MiscountedPlaceholders(elements, Len(ConfigPeriodRanges(config))) :
                         i <= j].line_num
    ELSE line_num

\* C15: every fatal error caused by a definition line leaves the parser as
\* its syntax error (ValueError) carrying the number of the line it comes
\* from.
C15_ErrorsCarryLineNumber ==
    (parse_pc = "raised" /\ parse_error.what \in LineErrors) =>
        /\ parse_error.exception = "ValueError"
        /\ parse_error.has_line
        /\ parse_error.line = OriginatingLine

(***************************************************************************)
(* Claims about apply_operation and parse_gnucash_value                    *)
(***************************************************************************)

\* n/d rounded to the nearest integer, ties away from zero (d > 0)
RoundHalfAway(n, d) ==
    IF n >= 0 THEN (2 * n + d) \div (2 * d)
    ELSE -((2 * (-n) + d) \div (2 * d))

\* value OP operand as a fraction of cents with a positive denominator, for an
\* operand num/den and an operator other than a division by zero
ExactNum(v, op) ==
    LET n == IF op.den > 0 THEN op.num ELSE -op.num
        d == IF op.den > 0 THEN op.den ELSE -op.den
    IN  CASE op.operator \in {"*", "%"} -> v * n
          [] op.operator = "/" -> IF n > 0 THEN v * d ELSE -(v * d)
          [] op.operator = "+" -> v * d + 100 * n
          [] op.operator = "-" -> v * d - 100 * n

ExactDen(op) ==
    LET n == IF op.den > 0 THEN op.num ELSE -op.num
        d == IF op.den > 0 THEN op.den ELSE -op.den
    IN  IF op.operator = "/" THEN (IF n > 0 THEN n ELSE -n) ELSE d

DividesByZeroOperand(op) == op.operator = "/" /\ op.num = 0

\* C16: with an operation, every final value of an Account row is
\* value OP operand rounded to the nearest cent, ties away from zero; with no
\* operation the final series is the series before the operation, unchanged.
C16_FinalRoundsHalfAway ==
    op_pc = "returned" =>
        IF op_operation = NoOperation THEN op_final = op_values
        ELSE /\ Len(op_final) = Len(op_values)
             /\ ~DividesByZeroOperand(op_operation) =>
                    \A k \in 1..Len(op_values) :
                        op_final[k] = RoundHalfAway(ExactNum(op_values[k], op_operation),
                                                    ExactDen(op_operation))

\* C17: apply_operation with '/' and the operand 0 returns 0.00 for every
\* value and never raises; with an operand that is not 0 it returns, for
\* every value, value / operand (to the cent: within half a cent of the
\* quotient).
C17_DivisionByZeroIsZero ==
    /\ op_pc \in {"call", "returned"}
    /\ (op_pc = "returned" /\ op_operation.operator = "/") =>
          /\ Len(op_final) = Len(op_values)
          /\ \A k \in 1..Len(op_values) :
                IF op_operation.num = 0 THEN op_final[k] = 0
                ELSE LET diff == 2 * (op_final[k] * ExactDen(op_operation)
                                        - ExactNum(op_values[k], op_operation))
                     IN  diff <= ExactDen(op_operation) /\ -diff <= ExactDen(op_operation)

\* a series with a value that is not zero went through a division by zero
C17_Witness ==
    /\ op_pc = "returned"
    /\ DividesByZeroOperand(op_operation)
    /\ \E k \in 1..Len(op_values) : op_values[k] # 0
    /\ Len(op_values) > 1

\* the text is two integers around a slash, the second not zero
IsWellFormedFraction(value_str) == value_str.form = "frac" /\ value_str.den # 0

\* C19: parse_gnucash_value returns zero, without raising, for every text
\* that is not of the form <int>/<int> (a text with words around the slash
\* included) and for a zero denominator; for a well-formed fraction it
\* returns num/den to the cent.
C19_MalformedValueIsZero ==
    /\ gv_pc # "raised"
    /\ gv_pc = "returned" =>
          IF IsWellFormedFraction(gv_str)
          THEN LET den == IF gv_str.den > 0 THEN gv_str.den ELSE -gv_str.den
                   num == IF gv_str.den > 0 THEN gv_str.num ELSE -gv_str.num
                   diff == 2 * (gv_value * den - 100 * num)
               IN  diff <= den /\ -diff <= den
          ELSE gv_value = 0

(***************************************************************************)
(* Claims about calculate_account_values                                   *)
(***************************************************************************)

\* an Account row on a known account of a loaded file, handled by the loop
IsValidAccountRow(p) ==
    /\ elements[p].type = "account"
    /\ Processed(p)
    /\ FileLoaded(accounts, tree_loaded)
    /\ InAccounts(elements[p].guid, accounts)

\* the accounts the row adds up
TargetGuids(p) ==
    IF elements[p].recursive THEN GetDescendantGuids(elements[p].guid, accounts)
    ELSE <<elements[p].guid>>

\* the total of the base cache for the row in period k
BaseTotal(p, k) == PeriodTotal(TargetGuids(p), 1, transaction_cache, k - 1)

\* the row has a filtered cache
HasFilteredCache(p) ==
    NeedsFilteredCache(elements[p]) /\ ElementCacheKey(elements[p]) \in DOMAIN filtered_caches

\* the total of the cache the working series of the row is read from
CacheTotal(p, k) ==
    IF HasFilteredCache(p)
    THEN MapGet(filtered_caches[ElementCacheKey(elements[p])], k - 1, 0)
    ELSE BaseTotal(p, k)

\* invert_income is on and the account of the row itself is an INCOME account
IsInvertedRow(p) ==
    invert_income /\ AccountOf(elements[p].guid, accounts).account_type = "INCOME"

\* C18: with invert_income on and an INCOME account as the account of the
\* row, every value of the working series (raw, or filtered when the row has
\* a FILTER or REGEX) is the total of the cache negated once, never twice;
\* in every other case the values are the totals of the cache as they are.
C18_IncomeNegatedOnce ==
    \A p \in Positions :
        IsValidAccountRow(p) =>
            \A k \in Periods :
                /\ stored_values[p].raw[k] =
                      IF IsInvertedRow(p) THEN -BaseTotal(p, k) ELSE BaseTotal(p, k)
                /\ WorkingSeries(p)[k] =
                      IF IsInvertedRow(p) THEN -CacheTotal(p, k) ELSE CacheTotal(p, k)

\* the loop has returned with invert_income on, over an INCOME row with a
\* FILTER whose filtered total is not zero and an INCOME row without FILTER
\* or REGEX whose total is not zero
C18_Witness ==
    /\ calc_pc = "returned"
    /\ invert_income
    /\ \E p \in Positions :
          /\ IsValidAccountRow(p)
          /\ IsInvertedRow(p)
          /\ HasFilteredCache(p)
          /\ \E k \in Periods : CacheTotal(p, k) # 0
    /\ \E p \in Positions :
          /\ IsValidAccountRow(p)
          /\ IsInvertedRow(p)
          /\ ~NeedsFilteredCache(elements[p])
          /\ \E k \in Periods : CacheTotal(p, k) # 0

(***************************************************************************)
(* Claims about the lock files of the transaction sorter                   *)
(***************************************************************************)

\* the instance has the file loaded and holds its lock
HoldsFile(i, f) == inst_pc[i] # "closed" /\ inst_file[i] = f /\ inst_lock[i] = f

\* C20: the .LCK lock file prevents concurrent edits: under every
\* interleaving of the load and close steps of two instances, at most one
\* instance at a time has a given GnuCash file loaded and holds its lock.
C20_OneInstancePerFile ==
    \A f \in GnuCashFiles :
        \A i \in Instances, j \in Instances :
            (HoldsFile(i, f) /\ HoldsFile(j, f)) => i = j

(***************************************************************************)
(* The sorter: unsaved reorderings                                         *)
(***************************************************************************)

\* the user cancelled, or chose to save and the save was declined or failed
SaveNotDone(given) ==
    \/ given.unsaved = "cancel"
    \/ given.unsaved = "yes" /\ given.confirm = "no"
    \/ given.unsaved = "yes" /\ given.confirm = "yes" /\ given.written = "failed"

GuardedHandlers == {"browse_file", "select_account", "date_changed", "close"}

\* a step of the handlers in hs that found changes and was answered so
NotSavedStep(hs) ==
    /\ ed_dialog'.handler \in hs
    /\ ed_dialog'.changed
    /\ HasChanges(txn_list)
    /\ SaveNotDone(ed_dialog'.given)

KeepsEverything ==
    /\ ed_context' = ed_context
    /\ ed_window' = ed_window
    /\ txn_list' = txn_list

\* C21: when a handler that switches the file, the account or the date, or
\* that closes the window, finds unsaved changes and the user cancels, or
\* chooses to save and the save is declined or fails, the context is not
\* switched, the window is not closed and the reordered list is kept.
C21_UnsavedKeptUnlessDiscarded ==
    [][NotSavedStep(GuardedHandlers) => KeepsEverything]_vars


(***************************************************************************)
(* The sorter: the backup of write_transaction_order                       *)
(***************************************************************************)

\* the call has nothing to save: no changes, no file, or invalid XML
NothingToSave == ~HasChanges(txn_list) \/ ~wr_file.exists \/ ~wr_valid

\* the file and the backups are as they were when the call began
FileUntouched ==
    /\ wr_file.content = OriginalOrder(txn_list)
    /\ wr_backups \subseteq {OldBackup}

\* C22: write_transaction_order changes the GnuCash file only in a step
\* before which this call has made a backup holding the content the file
\* then has; and a call on a list without changes, on a missing file or with
\* invalid modified XML leaves the file as it was and makes no backup.
C22_BackupBeforeOverwrite ==
    [][/\ wr_file' # wr_file => CreateBackup(wr_file) \in wr_backups
       /\ wr_pc' \in {"validate", "write", "returned"} /\ NothingToSave' => FileUntouched'
      ]_vars

\* a call that wrote the new order over the old one, with the backup
C22_Witness ==
    /\ wr_pc = "returned"
    /\ wr_result.success
    /\ wr_file.content = CurrentOrder(txn_list)
    /\ wr_file.content # OriginalOrder(txn_list)
    /\ Backup(CreateBackup(wr_file).name, OriginalOrder(txn_list)) \in wr_backups


(***************************************************************************)
(* The propagator: what collect_accounts_to_hide is to leave behind        *)
(***************************************************************************)

\* the accounts above an account, by parent_guid
RECURSIVE Ancestors(_)
Ancestors(guid) ==
    IF hid_parent[guid] = NoParent THEN {}
    ELSE {hid_parent[guid]} \cup Ancestors(hid_parent[guid])

\* an account above it was hidden in the file
HasHiddenAncestor(guid) == \E a \in Ancestors(guid) : hid_initial[a]

\* C23: when collect_accounts_to_hide has returned to main, every account
\* with a hidden ancestor is hidden, accounts_to_hide holds exactly the
\* accounts that were not hidden in the file and have a hidden ancestor, and
\* an account without a hidden ancestor is hidden exactly when it was.
C23_HiddenPropagated ==
    hid_pc = "returned" =>
        /\ \A guid \in AccountGuids : HasHiddenAncestor(guid) => hid_hidden[guid]
        /\ accounts_to_hide =
               {guid \in AccountGuids : ~hid_initial[guid] /\ HasHiddenAncestor(guid)}
        /\ \A guid \in AccountGuids :
               ~HasHiddenAncestor(guid) => hid_hidden[guid] = hid_initial[guid]


(***************************************************************************)
(* get_period_ranges: termination                                          *)
(***************************************************************************)

\* C24: for every start_date <= end_date and both period types the walk of
\* get_period_ranges raises no error: it is in its loop, with the current
\* position not behind end_date plus one period, or it has returned with the
\* current position behind end_date.
C24_ReturnsNormally ==
    /\ pr_pc # "raised"
    /\ pr_pc = "returned" => DateLT(end_date, current_date)


(***************************************************************************)
(* The parser: the reference table and the references of the elements      *)
(***************************************************************************)

\* the positions of the elements that carry a reference number
ReferencedRows == {i \in 1..Len(elements) : elements[i].reference # NoReference}

\* C25: when the parser has returned, no two elements carry the same
\* reference number, the keys of the reference table are exactly the
\* reference numbers the elements carry, and each is mapped to the line of
\* the element that carries it.
C25_ReferencesMatchElements ==
    parse_pc = "returned" =>
        /\ \A i, j \in ReferencedRows :
               elements[i].reference = elements[j].reference => i = j
        /\ DOMAIN references = {elements[i].reference : i \in ReferencedRows}
        /\ \A i \in ReferencedRows :
               MapGet(references, elements[i].reference, 0) = elements[i].line_num


(***************************************************************************)
(* process_report_elements: what it reads and what it writes               *)
(***************************************************************************)

\* the rows that get an entry of stored_values
IsStoredRow(p) == elements[p].type \in {"account", "sum", "calc"}

\* the keys of the stored rows before position pos
StoredBefore(pos) == {elements[p].line_num : p \in {q \in 1..(pos - 1) : IsStoredRow(q)}}

\* C26: a step of process_report_elements leaves the element list, the
\* account registry, the base cache and the filtered caches as they are (no
\* lookup adds a key), keeps every entry of stored_values as it is, and
\* writes at most the entry of the row the loop is at; the entries are those
\* of the Account, Sum and Calc rows the loop has passed, in document order.
C26_ProcessFrame ==
    [][/\ elements' = elements
       /\ accounts' = accounts
       /\ transaction_cache' = transaction_cache
       /\ filtered_caches' = filtered_caches
       /\ \A k \in DOMAIN stored_values :
              k \in DOMAIN stored_values' /\ stored_values'[k] = stored_values[k]
       /\ (DOMAIN stored_values') \ (DOMAIN stored_values) \subseteq
              {elements[p].line_num : p \in {elem_pos} \cap (1..Len(elements))}
       /\ DOMAIN stored_values' = StoredBefore(elem_pos')
      ]_vars

\* the loop has passed an Account row read from a filtered cache, a Sum row
\* and a Calc row, and each has its entry
C26_Witness ==
    /\ calc_pc = "returned"
    /\ tree_loaded
    /\ DOMAIN filtered_caches # {}
    /\ \E p, q, r \in 1..Len(elements) :
          /\ elements[p].type = "account" /\ NeedsFilteredCache(elements[p])
          /\ elements[q].type = "sum"
          /\ elements[r].type = "calc"
          /\ {elements[p].line_num, elements[q].line_num, elements[r].line_num}
                 \subseteq DOMAIN stored_values


(***************************************************************************)
(* identify_required_caches and the lookup of calculate_account_values     *)
(***************************************************************************)

\* the Account rows that declare a FILTER or at least one REGEX pattern
DeclaresFilter(p) ==
    /\ elements[p].type = "account"
    /\ \/ elements[p].filter_guid \notin {None, ""}
       \/ elements[p].regex_include # <<>>
       \/ elements[p].regex_exclude # <<>>

\* the combination a row declares
Combination(p) ==
    <<elements[p].guid, elements[p].filter_guid, elements[p].regex_include,
      elements[p].regex_exclude>>

KeyCombination(key) ==
    <<key.account_guid, key.filter_guid, key.regex_include, key.regex_exclude>>

\* the filtered series of the row, with the sign of the row, and its final
FilteredFinal(p) ==
    LET series == [k \in Periods |->
                      (IF IsInvertedRow(p) THEN -1 ELSE 1) *
                      MapGet(filtered_caches[ElementCacheKey(elements[p])], k - 1, 0)]
    IN  IF elements[p].operation = NoOperation THEN series
        ELSE ApplyOperation(series, elements[p].operation)

\* C27: with a file loaded, the required set holds one key for each
\* combination of target, filter, include and exclude patterns that an
\* Account row with a FILTER or REGEX declares and no other key (none for a
\* plain row), distinct combinations having distinct keys; so for each such
\* row on a known account the key is in the filtered caches and the final
\* series of the row is computed from the filtered series.
C27_RequiredCachesExact ==
    tree_loaded =>
        /\ {KeyCombination(key) : key \in required_caches} =
               {Combination(p) : p \in {q \in Positions : DeclaresFilter(q)}}
        /\ Cardinality(required_caches) =
               Cardinality({Combination(p) : p \in {q \in Positions : DeclaresFilter(q)}})
        /\ \A p \in Positions :
               IsValidAccountRow(p) /\ DeclaresFilter(p) =>
                   /\ ElementCacheKey(elements[p]) \in required_caches
                   /\ ElementCacheKey(elements[p]) \in DOMAIN filtered_caches
                   /\ stored_values[p].final = FilteredFinal(p)

\* the loop has returned over a row with a FILTER and a row with a REGEX
\* whose filtered series differ from their raw series
C27_Witness ==
    /\ calc_pc = "returned"
    /\ \E p, q \in Positions :
          /\ IsValidAccountRow(p) /\ IsValidAccountRow(q)
          /\ elements[p].filter_guid # None
          /\ elements[q].regex_include # <<>>
          /\ stored_values[p].filtered # stored_values[p].raw
          /\ stored_values[q].regex_filtered # stored_values[q].raw
          /\ stored_values[p].final # stored_values[p].raw
    /\ \E p \in Positions : IsValidAccountRow(p) /\ ~DeclaresFilter(p)


(***************************************************************************)
(* strip_comments and process_escape_sequences: what they are to return    *)
(***************************************************************************)

\* how many backslashes stand directly before position i
BackslashesBefore(chars, i) ==
    Cardinality({j \in 1..(i - 1) : \A k \in j..(i - 1) : chars[k] = Backslash})

\* position i is the first character of an escape: a backslash that is not
\* itself escaped, before a hash or a backslash
StartsEscape(chars, i) ==
    /\ chars[i] = Backslash
    /\ BackslashesBefore(chars, i) % 2 = 0
    /\ i < Len(chars)
    /\ chars[i + 1] \in {Hash, Backslash}

\* position i is inside a double-quoted span: behind an odd number of quotes
InQuotedSpan(chars, i) ==
    Cardinality({j \in 1..(i - 1) : chars[j] = Quote}) % 2 = 1

\* a hash that starts a comment: not quoted, not the second character of an
\* escape
CommentHashes(chars) ==
    {i \in 1..Len(chars) :
        /\ chars[i] = Hash
        /\ ~InQuotedSpan(chars, i)
        /\ BackslashesBefore(chars, i) % 2 = 0}

\* the characters before the first such hash; the line if there is none
BeforeComment(chars) ==
    IF CommentHashes(chars) = {} THEN chars
    ELSE SubSeq(chars, 1,
                (CHOOSE i \in CommentHashes(chars) :
                     \A j \in CommentHashes(chars) : i <= j) - 1)

\* a text without its leading and trailing spaces
Trimmed(chars) ==
    LET inked == {i \in 1..Len(chars) : chars[i] # Space}
    IN  IF inked = {} THEN <<>>
        ELSE SubSeq(chars, CHOOSE i \in inked : \A j \in inked : i <= j,
                           CHOOSE i \in inked : \A j \in inked : i >= j)

\* a text with \# replaced by # and \\ by \: each first character of an
\* escape removed, every other character kept
RECURSIVE EscapesResolvedFrom(_, _)
EscapesResolvedFrom(chars, i) ==
    IF i > Len(chars) THEN <<>>
    ELSE (IF StartsEscape(chars, i) THEN <<>> ELSE <<chars[i]>>)
             \o EscapesResolvedFrom(chars, i + 1)

EscapesResolved(chars) == EscapesResolvedFrom(chars, 1)

\* C28 as stated: strip_comments returns the characters of the line before
\* the first hash that is neither quoted nor escaped, every one of them, and
\* process_escape_sequences returns that text with \# replaced by # and \\
\* by \ and every other backslash sequence as it is.
C28_StripsExactlyTheComment ==
    /\ sc_pc \in {"escape", "returned"} => sc_stripped = BeforeComment(sc_line)
    /\ sc_pc = "returned" => sc_processed = EscapesResolved(sc_stripped)

\* C28, amended: strip_comments returns the characters of the line before
\* the first hash that is neither quoted nor escaped, without the spaces at
\* the two ends of that text, and process_escape_sequences returns the
\* stripped text with \# replaced by # and \\ by \ and every other backslash
\* sequence as it is.
C28_StripsTheCommentAndTrims ==
    /\ sc_pc \in {"escape", "returned"} => sc_stripped = Trimmed(BeforeComment(sc_line))
    /\ sc_pc = "returned" => sc_processed = EscapesResolved(sc_stripped)

\* a line with a space, an escaped hash and a comment has been processed
C28_Witness ==
    /\ sc_pc = "returned"
    /\ sc_line = <<Space, Backslash, Hash, Hash>>
    /\ sc_stripped = <<Backslash, Hash>>
    /\ sc_processed = <<Hash>>


(***************************************************************************)
(* The sorter: the algebra of the transaction list                         *)
(***************************************************************************)

\* b holds the transactions of a, each once, flags aside
IsReordering(a, b) ==
    /\ Len(a) = Len(b)
    /\ \A i \in 1..Len(a) :
           Cardinality({j \in 1..Len(b) :
               b[j].id = a[i].id /\ b[j].original_index = a[i].original_index}) = 1

\* the transactions are distinct and their original indexes are 0..n-1
IsOrderOfOriginal(txns) ==
    /\ \A i, j \in 1..Len(txns) : txns[i].id = txns[j].id => i = j
    /\ {txns[i].original_index : i \in 1..Len(txns)} = 0..(Len(txns) - 1)

\* the ids in the order of the original indexes
OriginalIds(txns) ==
    [n \in 1..Len(txns) |->
        txns[CHOOSE i \in 1..Len(txns) : txns[i].original_index = n - 1].id]

\* C29: whatever moves were made, the list holds the transactions of the
\* original list, each once; a move up or down with any index gives such a
\* list again, and with an index out of range or at the boundary it changes
\* nothing; has_changes() is true exactly when the order differs from the
\* original order; and revert_to_original_order gives the original order
\* with has_changes() false and no moved flag set.
C29_ListAlgebra ==
    /\ IsOrderOfOriginal(txn_list)
    /\ \A index \in IndexMenu :
          /\ IsReordering(txn_list, MoveTransactionUp(txn_list, index))
          /\ IsReordering(txn_list, MoveTransactionDown(txn_list, index))
          /\ index \notin 1..(Len(txn_list) - 1) =>
                 MoveTransactionUp(txn_list, index) = txn_list
          /\ index \notin 0..(Len(txn_list) - 2) =>
                 MoveTransactionDown(txn_list, index) = txn_list
          /\ index \in 1..(Len(txn_list) - 1) =>
                 CurrentOrder(MoveTransactionUp(txn_list, index)) # CurrentOrder(txn_list)
          /\ index \in 0..(Len(txn_list) - 2) =>
                 CurrentOrder(MoveTransactionDown(txn_list, index)) # CurrentOrder(txn_list)
    /\ HasChanges(txn_list) <=> CurrentOrder(txn_list) # OriginalIds(txn_list)
    /\ CurrentOrder(RevertToOriginalOrder(txn_list)) = OriginalIds(txn_list)
    /\ IsReordering(txn_list, RevertToOriginalOrder(txn_list))
    /\ ~HasChanges(RevertToOriginalOrder(txn_list))
    /\ \A i \in 1..Len(txn_list) : ~RevertToOriginalOrder(txn_list)[i].moved
    /\ ed_dialog.handler = "revert" /\ ed_dialog.given.confirm = "yes" =>
           ~HasChanges(txn_list) /\ \A i \in 1..Len(txn_list) : ~txn_list[i].moved

\* a reordered list has been reverted
C29_Witness ==
    /\ ed_dialog.handler = "revert"
    /\ ed_dialog.changed
    /\ ed_dialog.given.confirm = "yes"
    /\ Len(txn_list) >= 2
    /\ CurrentOrder(txn_list) = OriginalIds(txn_list)


(***************************************************************************)
(* The filtered caches against the base cache                              *)
(***************************************************************************)

\* what one transaction adds to the base cache and to the cache of one key
BaseOfTransaction(trn) == BaseCacheAddTrn(EmptyMap, trn, period_ranges, account_guids)

FilteredOfTransaction(trn, key) ==
    FilteredCachesAddTrn([k \in {key} |-> EmptyMap], trn, period_ranges, {key})[key]

\* the key has a FILTER on its own target account and no REGEX
FiltersOnTarget(key) ==
    /\ key.filter_guid = key.account_guid
    /\ key.regex_include = <<>>
    /\ key.regex_exclude = <<>>

BaseCacheTotal(guid, p) == MapGet(MapGet(transaction_cache, guid, EmptyMap), p, 0)

\* C30: when both builders are done over the same store and periods, the
\* cache of a key without REGEX whose filter account is its target account
\* has in every period the total the base cache has for that account; and
\* for every key and every transaction, a period to which the transaction
\* adds in the cache of the key is a period to which it adds, with the same
\* amount, in the base cache of the key's target account (an account of
\* account_guids, as every account of the file is).
C30_FilteredWithinBase ==
    cache_pc = "done" =>
        \A key \in required_caches :
            key.account_guid \in account_guids =>
                /\ FiltersOnTarget(key) =>
                       \A p \in PeriodIndexes :
                           MapGet(filtered_caches[key], p, 0)
                               = BaseCacheTotal(key.account_guid, p)
                /\ \A i \in 1..Len(store) :
                       \A p \in DOMAIN FilteredOfTransaction(store[i], key) :
                           /\ key.account_guid \in DOMAIN BaseOfTransaction(store[i])
                           /\ p \in DOMAIN BaseOfTransaction(store[i])[key.account_guid]
                           /\ FilteredOfTransaction(store[i], key)[p]
                                  = BaseOfTransaction(store[i])[key.account_guid][p]

\* both builders are done with a key filtering on its own target, whose
\* total is not zero, and a key whose cache holds less than the base cache
C30_Witness ==
    /\ cache_pc = "done"
    /\ \E key \in required_caches, p \in PeriodIndexes :
          /\ FiltersOnTarget(key)
          /\ MapGet(filtered_caches[key], p, 0) # 0
    /\ \E key \in required_caches, p \in PeriodIndexes :
          /\ MapGet(filtered_caches[key], p, 0) # 0
          /\ MapGet(filtered_caches[key], p, 0) # BaseCacheTotal(key.account_guid, p)


====
